---- MODULE Spec2Model ----
(***************************************************************************)
(* Model of the topic-based selection engine and the delay tracker of      *)
(* src/src/run_daily.py.                                                   *)
(*                                                                         *)
(* Strings are sequences of characters (one-character TLA+ strings; a CJK  *)
(* character is written as its pinyin syllable), so that lower(), strip(), *)
(* strip_html() and the substring test `a in b` are computed, not assumed. *)
(* Scores are kept in tenths (2.0 is 20, 0.5 is 5, 0.2 is 2): every weight *)
(* of the scorer is a multiple of 0.1; the rounding of binary floating     *)
(* point sums is not modelled.                                             *)
(* Times are whole hours on one clock; isoformat() / fromisoformat() are   *)
(* modelled as a tagging and an untagging that fails on anything else.     *)
(***************************************************************************)
EXTENDS Integers, Sequences, FiniteSets, TLC

\* ------------------------------------------------------------------ bounds
MaxPool == 3          \* longest item pool handed to pick_by_topic
MaxMaxItems == 3      \* largest digest.max_items tried
MaxMinPerTopic == 2   \* largest digest.min_per_topic tried
MaxNow == 1           \* last hour of the clock
MaxGuardTerms == 2    \* longest term list of a guard tried on guard_pass
MaxKeywords == 2      \* longest keyword list tried on score_item
MaxUsers == 3         \* most subscribers in data/users.json
MaxRuns == 2          \* runs of generate_today_digest in one behaviour

\* ------------------------------------------------------------ Python None
None == [none |-> TRUE]

\* -------------------------------------------------------------- str tools
UpperMap == [A |-> "a", I |-> "i", T |-> "t", W |-> "w"]

LowerChar(c) == IF c \in DOMAIN UpperMap THEN UpperMap[c] ELSE c

\* str.lower()
Lower(s) == [i \in 1..Len(s) |-> LowerChar(s[i])]

IsSpace(c) == c = " "

RECURSIVE LStrip(_)
LStrip(s) == IF s # <<>> /\ IsSpace(Head(s)) THEN LStrip(Tail(s)) ELSE s

RECURSIVE RStrip(_)
RStrip(s) ==
  IF s # <<>> /\ IsSpace(s[Len(s)]) THEN RStrip(SubSeq(s, 1, Len(s) - 1)) ELSE s

\* str.strip()
Strip(s) == RStrip(LStrip(s))

\* the Python test `sub in s` on strings
Contains(sub, s) ==
  \E i \in 0..(Len(s) - Len(sub)) : SubSeq(s, i + 1, i + Len(sub)) = sub

\* index of the first ">" of s at or after position i, 0 when there is none
RECURSIVE FirstGt(_, _)
FirstGt(s, i) ==
  IF i > Len(s) THEN 0 ELSE IF s[i] = ">" THEN i ELSE FirstGt(s, i + 1)

\* re.sub(r"<[^>]+>", " ", s)
RECURSIVE ReplaceTags(_)
ReplaceTags(s) ==
  IF s = <<>> THEN <<>>
  ELSE IF Head(s) = "<" /\ Len(s) >= 3 /\ s[2] # ">" /\ FirstGt(s, 3) # 0
       THEN <<" ">> \o ReplaceTags(SubSeq(s, FirstGt(s, 3) + 1, Len(s)))
       ELSE <<Head(s)>> \o ReplaceTags(Tail(s))

\* re.sub(r"\s+", " ", s)
RECURSIVE CollapseSpace(_)
CollapseSpace(s) ==
  IF s = <<>> THEN <<>>
  ELSE IF IsSpace(Head(s))
       THEN <<" ">> \o CollapseSpace(LStrip(s))
       ELSE <<Head(s)>> \o CollapseSpace(Tail(s))

strip_html(s) == IF s = <<>> THEN <<>> ELSE Strip(CollapseSpace(ReplaceTags(s)))

_text_blob(item) == Lower(item.title \o <<" ">> \o strip_html(item.summary))

\* any(t in blob for t in terms)
AnyIn(terms, blob) == \E i \in 1..Len(terms) : Contains(terms[i], blob)

\* mutant: the terms are kept as they are written
NonEmptyAsIs(terms) == SelectSeq(terms, LAMBDA s : s # <<>>)

\* [f(s) for s in terms if s]  with f = str.lower
LowerNonEmpty(terms) ==
  LET keep == SelectSeq(terms, LAMBDA s : s # <<>>)
  IN  [i \in 1..Len(keep) |-> Lower(keep[i])]

\* hit_list.append(term) unless it is there already
_add_hit(hit_list, term) ==
  IF \E i \in 1..Len(hit_list) : hit_list[i] = term
  THEN hit_list ELSE Append(hit_list, term)

\* ------------------------------------------------------- inputs: the feed
Item1 ==
  [title |-> <<"A", "I", " ", "c", "h", "i", "p">>,
   link |-> <<"o", "p", "e", "n", "a", "i", ".", "c", "o", "m", "/", "1">>,
   summary |-> <<>>,
   published |-> 0]

Item2 ==
  [title |-> <<"t", "e", "c", "h", " ", "n", "e", "w", "s">>,
   link |-> <<"n", ".", "t", "w", "/", "2">>,
   summary |-> <<"<", "b", ">", "A", "I", "<", "/", "b", ">", " ", " ", "r", "u", "l", "e">>,
   published |-> 0]

Item3 ==
  [title |-> <<"a", "u", "d", "i", "t", " ", "r", "u", "m", "o", "r">>,
   link |-> <<"n", ".", "t", "w", "/", "3">>,
   summary |-> <<"t", "a", "x">>,
   published |-> 0]

Item4 ==
  [title |-> <<"t", "o", "m", "o", "d", "'", "s">>,
   link |-> <<"n", ".", "t", "w", "/", "4">>,
   summary |-> <<"<", "i", ">", "men", "shi2", "<", "/", "i", ">">>,
   published |-> 0]

Item5 ==
  [title |-> <<"A", "u", "d", "i", "t", " ", "t", "a", "x">>,
   link |-> <<"m", "e", "t", "a", ".", "c", "o", "m", "/", "5">>,
   summary |-> <<>>,
   published |-> 0]

Item6 ==
  [title |-> <<"W", "a", "t", "s", "o", "n", "s", " ", "A", "I">>,
   link |-> <<"n", ".", "t", "w", "/", "6">>,
   summary |-> <<"t", "a", "x">>,
   published |-> 0]

Catalogue == {Item1, Item2, Item3, Item4, Item5, Item6}

\* what fetch_rss returns: items with a title and a link, de-duplicated by
\* link, in any order
\* the sequences of at most n items of cat with pairwise distinct links
RECURSIVE DistinctPools(_, _)
DistinctPools(cat, n) ==
  IF n = 0 THEN {<<>>}
  ELSE LET prev == DistinctPools(cat, n - 1)
       IN  prev \cup
           {Append(x[1], x[2]) : x \in
              {y \in prev \X cat :
                 /\ Len(y[1]) = n - 1
                 /\ \A i \in 1..Len(y[1]) : y[1][i].link # y[2].link}}

\* the sequences of at most n distinct elements of a set
RECURSIVE DistinctSeqs(_, _)
DistinctSeqs(S, n) ==
  IF n = 0 THEN {<<>>}
  ELSE LET prev == DistinctSeqs(S, n - 1)
       IN  prev \cup
           {Append(x[1], x[2]) : x \in
              {y \in prev \X S :
                 /\ Len(y[1]) = n - 1
                 /\ \A i \in 1..Len(y[1]) : y[1][i] # y[2]}}

Pools == DistinctPools(Catalogue, MaxPool)

\* the feeds of the scheduled and the welcome runs
FeedPools ==
  { <<>>, <<Item1>>, <<Item6>>, <<Item5, Item6>>, <<Item1, Item6>>,
    <<Item6, Item5, Item1>> }

\* ------------------------------------------------- inputs: the config file
NoGuard == [configured |-> FALSE, must_include_any |-> <<>>,
            must_not_include_any |-> <<>>]

TopicAI ==
  [id |-> "ai_major", name |-> "AI", enabled |-> TRUE, min_score |-> 20,
   keywords |-> << <<"A", "I">>, <<"c", "h", "i", "p">> >>,
   low_weight_keywords |-> << <<"c", "h", "i", "p">> >>,
   guard |-> NoGuard]

TopicAccounting ==
  [id |-> "accounting", name |-> "Accounting", enabled |-> TRUE,
   min_score |-> 10,
   keywords |-> << <<"a", "u", "d", "i", "t">>, <<"t", "a", "x">> >>,
   low_weight_keywords |-> <<>>,
   guard |-> [configured |-> TRUE,
              must_include_any |-> << <<"T", "a", "x">> >>,
              must_not_include_any |-> << <<"r", "u", "m", "o", "r">> >>]]

TopicWatsons ==
  [id |-> "watsons_tw", name |-> "Watsons", enabled |-> TRUE, min_score |-> 20,
   keywords |-> << <<"w", "a", "t", "s", "o", "n", "s">> >>,
   low_weight_keywords |-> <<>>,
   guard |-> NoGuard]

TopicTech ==
  [id |-> "tech", name |-> "Tech", enabled |-> TRUE, min_score |-> 0,
   keywords |-> << <<"t", "e", "c", "h">>, <<" ">>, <<"A", "I">> >>,
   low_weight_keywords |-> <<>>,
   guard |-> NoGuard]

TopicMisc ==
  [id |-> "misc", name |-> "Misc", enabled |-> FALSE, min_score |-> 0,
   keywords |-> << <<"n", "e", "w", "s">> >>,
   low_weight_keywords |-> <<>>,
   guard |-> NoGuard]

TopicLists ==
  { <<TopicAI, TopicAccounting, TopicWatsons>>,
    <<TopicWatsons, TopicAI>>,
    <<TopicTech, TopicMisc, TopicAI>>,
    <<TopicTech, TopicAccounting>>,
    <<TopicAccounting, TopicAI>>,
    <<TopicMisc>> }

TopicSet == UNION {{ts[i] : i \in 1..Len(ts)} : ts \in TopicLists}

\* what the trend collectors hand over (Taiwan list, global list)
ThreadsChoices ==
  { [tw |-> <<>>, global |-> <<>>],
    [tw |-> << <<"A", "I">> >>,
     global |-> << <<"A", "I">>, <<" ">>, <<"A", "I", " ", "r", "u", "l", "e">> >>] }

\* the lists of distinct trend terms a topic can be handed
TermLists ==
  DistinctSeqs(UNION {{th.tw[i] : i \in 1..Len(th.tw)} \cup
                      {th.global[i] : i \in 1..Len(th.global)} :
                        th \in ThreadsChoices}, 3)

DelayDefault ==
  [enabled |-> TRUE, delay_hours |-> 1, max_candidates_per_topic |-> 3,
   min_score_to_watch |-> 25]

DelayEager ==
  [enabled |-> TRUE, delay_hours |-> 0, max_candidates_per_topic |-> 1,
   min_score_to_watch |-> 5]

DelayOff ==
  [enabled |-> FALSE, delay_hours |-> 2, max_candidates_per_topic |-> 3,
   min_score_to_watch |-> 25]

\* the config.yml variants the runs load
Configs ==
  { [topics |-> <<TopicAI, TopicAccounting, TopicWatsons>>, max_items |-> 3,
     min_per_topic |-> 1, radar_enabled |-> FALSE, max_terms_per_topic |-> 3,
     delay |-> DelayDefault],
    [topics |-> <<TopicTech, TopicMisc, TopicAI>>, max_items |-> 3,
     min_per_topic |-> 2, radar_enabled |-> TRUE, max_terms_per_topic |-> 3,
     delay |-> DelayEager],
    [topics |-> <<TopicWatsons, TopicAI>>, max_items |-> 2,
     min_per_topic |-> 1, radar_enabled |-> FALSE, max_terms_per_topic |-> 1,
     delay |-> DelayOff] }

\* ------------------------------------------------------------------ guard
guard_pass(item, guard) ==
  IF ~guard.configured THEN TRUE
  ELSE LET blob == _text_blob(item)
           must == LowerNonEmpty(guard.must_include_any)
           blocked == LowerNonEmpty(guard.must_not_include_any)
       IN  /\ (must # <<>> => AnyIn(must, blob))
           /\ (blocked # <<>> => ~AnyIn(blocked, blob))

\* ----------------------------------------------------------------- scorer
LowSet(low_weight_keywords) ==
  { Lower(Strip(low_weight_keywords[i])) :
      i \in { j \in 1..Len(low_weight_keywords) :
                Strip(low_weight_keywords[j]) # <<>> } }

\* mutant: a keyword found in the title is counted in the text as well
BaseStepBothTiers(acc, k, title, text, low_set) ==
  LET kl == Lower(Strip(k))
      is_low == kl \in low_set
  IN  IF kl = <<>> THEN acc
      ELSE IF Contains(kl, title)
           THEN [score |-> acc.score + (IF is_low THEN 5 ELSE 20)
                             + (IF is_low THEN 2 ELSE 10),
                 hits |-> _add_hit(acc.hits, k)]
      ELSE IF Contains(kl, text)
           THEN [score |-> acc.score + (IF is_low THEN 2 ELSE 10),
                 hits |-> _add_hit(acc.hits, k)]
      ELSE acc

\* one turn of the base-keyword loop: acc is [score, hits]
BaseStep(acc, k, title, text, low_set) ==
  LET kl == Lower(Strip(k))
      is_low == kl \in low_set
  IN  IF kl = <<>> THEN acc
      ELSE IF Contains(kl, title)
           THEN [score |-> acc.score + (IF is_low THEN 5 ELSE 20),
                 hits |-> _add_hit(acc.hits, k)]
      ELSE IF Contains(kl, text)
           THEN [score |-> acc.score + (IF is_low THEN 2 ELSE 10),
                 hits |-> _add_hit(acc.hits, k)]
      ELSE acc

\* one turn of the radar-term loop
RadarStep(acc, rt, title, text) ==
  LET rl == Lower(Strip(rt))
  IN  IF rl = <<>> THEN acc
      ELSE IF Contains(rl, title)
           THEN [score |-> acc.score + 8, hits |-> _add_hit(acc.hits, rt)]
      ELSE IF Contains(rl, text)
           THEN [score |-> acc.score + 4, hits |-> _add_hit(acc.hits, rt)]
      ELSE acc

RECURSIVE BaseLoop(_, _, _, _, _)
BaseLoop(acc, ks, title, text, low_set) ==
  IF ks = <<>> THEN acc
  ELSE BaseLoop(BaseStep(acc, Head(ks), title, text, low_set),
                Tail(ks), title, text, low_set)

RECURSIVE RadarLoop(_, _, _, _)
RadarLoop(acc, rts, title, text) ==
  IF rts = <<>> THEN acc
  ELSE RadarLoop(RadarStep(acc, Head(rts), title, text), Tail(rts), title, text)

score_item(item, base_keywords, radar_terms, low_weight_keywords) ==
  LET title == Lower(item.title)
      text == _text_blob(item)
      b == BaseLoop([score |-> 0, hits |-> <<>>], base_keywords, title, text,
                    LowSet(low_weight_keywords))
      r == RadarLoop([score |-> 0, hits |-> <<>>], radar_terms, title, text)
  IN  [score |-> b.score + r.score, base_hits |-> b.hits, radar_hits |-> r.hits]

\* --------------------------------------------------------- fallback policy
allow_domains ==
  << <<"o", "p", "e", "n", "a", "i", ".", "c", "o", "m", "/">>,
     <<"b", "l", "o", "g", ".", "g", "o", "o", "g", "l", "e", "/">>,
     <<"r", "e", "s", "e", "a", "r", "c", "h", ".", "g", "o", "o", "g", "l", "e", "/">>,
     <<"d", "e", "e", "p", "m", "i", "n", "d", ".", "g", "o", "o", "g", "l", "e", "/">>,
     <<"n", "v", "i", "d", "i", "a", "n", "e", "w", "s", ".", "n", "v", "i", "d", "i", "a", ".", "c", "o", "m", "/">>,
     <<"n", "v", "i", "d", "i", "a", ".", "c", "o", "m", "/">>,
     <<"m", "i", "c", "r", "o", "s", "o", "f", "t", ".", "c", "o", "m", "/">>,
     <<"a", "z", "u", "r", "e", ".", "m", "i", "c", "r", "o", "s", "o", "f", "t", ".", "c", "o", "m", "/">>,
     <<"a", "n", "t", "h", "r", "o", "p", "i", "c", ".", "c", "o", "m", "/">>,
     <<"m", "e", "t", "a", ".", "c", "o", "m", "/">>,
     <<"a", "b", "o", "u", "t", ".", "m", "e", "t", "a", ".", "c", "o", "m", "/">> >>

_is_ai_official(link) == AnyIn(allow_domains, Lower(link))

\* a CJK character is one element, named by its pinyin; a digit tells apart
\* different characters that read alike
competitors ==
  << <<"kang", "shi", "mei">>,
     <<"bao", "ya">>,
     <<"song", "ben", "qing">>,
     <<"t", "o", "m", "o", "d">>,
     <<"t", "o", "m", "o", "d", "'", "s">>,
     <<"ri", "yao", "ben", "pu">>,
     <<"da", "shu">>,
     <<"da", "shu", "yao", "ju">>,
     <<"xing", "yi">> >>

context ==
  << <<"yao", "zhuang">>,
     <<"yao", "ju">>,
     <<"tong", "lu">>,
     <<"men", "shi2">>,
     <<"zhan", "dian">>,
     <<"kai", "mu">>,
     <<"guan", "dian">>,
     <<"ying", "shou">>,
     <<"cai", "bao2">>,
     <<"ling", "shou2">>,
     <<"ju2", "dian2">>,
     <<"shang", "quan">> >>

\* the first element of the scan, None when the scan found nothing
FirstOrNone(hits) == IF hits = <<>> THEN None ELSE Head(hits)

\* mutant: the fallback scan forgets used_links
UnusedIgnoringUsed(items, used_links) == items

\* [it for it in items if it.get("link") not in used_links]
Unused(items, used_links) ==
  SelectSeq(items, LAMBDA it : it.link \notin used_links)

\* mutant: accounting gets the fallback policy of the AI topic
FallbackForAccounting(items, topic, used_links) ==
  LET text_items == Unused(items, used_links)
  IN  IF topic.id \in {"accounting", "ai_major"}
      THEN FirstOrNone(SelectSeq(text_items,
                         LAMBDA it : _is_ai_official(it.link)))
      ELSE IF topic.id = "watsons_tw"
           THEN FirstOrNone(SelectSeq(text_items,
                  LAMBDA it : /\ AnyIn(competitors, _text_blob(it))
                              /\ AnyIn(context, _text_blob(it))))
      ELSE None

pick_fallback_item(items, topic, used_links) ==
  LET text_items == Unused(items, used_links)
  IN  IF topic.id = "accounting" THEN None
      ELSE IF topic.id = "ai_major"
           THEN FirstOrNone(SelectSeq(text_items,
                              LAMBDA it : _is_ai_official(it.link)))
      ELSE IF topic.id = "watsons_tw"
           THEN FirstOrNone(SelectSeq(text_items,
                  LAMBDA it : /\ AnyIn(competitors, _text_blob(it))
                              /\ AnyIn(context, _text_blob(it))))
      ELSE None

\* ----------------------------------------------------------------- ranker
\* dict.get(tid, [])
RadarGet(topic_radar_terms, tid) ==
  IF tid \in DOMAIN topic_radar_terms THEN topic_radar_terms[tid] ELSE <<>>

\* the entry appended to `ranked` for an admitted item
Candidate(t, it, radar_terms) ==
  LET r == score_item(it, t.keywords, radar_terms, t.low_weight_keywords)
  IN  [topic_id |-> t.id, topic_name |-> t.name, score |-> r.score,
       item |-> it, base_hits |-> r.base_hits, radar_hits |-> r.radar_hits,
       used_radar_terms |-> radar_terms, is_fallback |-> FALSE]


\* mutant: the sort puts an entry before the earlier entries of equal score
RECURSIVE SortByScoreDescTiesReversed(_)
SortByScoreDescTiesReversed(s) ==
  IF s = <<>> THEN <<>>
  ELSE LET front == SortByScoreDescTiesReversed(SubSeq(s, 1, Len(s) - 1))
           e == s[Len(s)]
           p == Cardinality({i \in 1..Len(front) : front[i].score > e.score})
       IN  SubSeq(front, 1, p) \o <<e>> \o SubSeq(front, p + 1, Len(front))

\* list.sort(key=score, reverse=True): stable, ties keep their order
RECURSIVE SortByScoreDesc(_)
SortByScoreDesc(s) ==
  IF s = <<>> THEN <<>>
  ELSE LET front == SortByScoreDesc(SubSeq(s, 1, Len(s) - 1))
           e == s[Len(s)]
           p == Cardinality({i \in 1..Len(front) : front[i].score >= e.score})
       IN  SubSeq(front, 1, p) \o <<e>> \o SubSeq(front, p + 1, Len(front))

\* mutant: the min_score gate is dropped
AdmittedWithoutMinScore(c, t) == guard_pass(c.item, t.guard)

\* the two `continue` gates of the ranking loop, on the scored item
Admitted(c, t) == guard_pass(c.item, t.guard) /\ ~(c.score < t.min_score)

\* one pass of the ranking loop body: the entry and whether it is appended
RankStep(t, it, radar_terms) ==
  LET c == Candidate(t, it, radar_terms)
  IN  [cand |-> c, ok |-> Admitted(c, t)]

\* guard_pass and score_item are pure: the loop body over the topics, items
\* and radar term lists of this model, evaluated once
RankKeys == TopicSet \X Catalogue \X TermLists

RankTable == [k \in RankKeys |-> RankStep(k[1], k[2], k[3])] @@ <<>>

Scored(t, it, radar_terms) ==
  IF <<t, it, radar_terms>> \in RankKeys
  THEN RankTable[<<t, it, radar_terms>>]
  ELSE RankStep(t, it, radar_terms)

Ranked(items, t, topic_radar_terms) ==
  LET radar_terms == RadarGet(topic_radar_terms, t.id)
      scored == [i \in 1..Len(items) |-> Scored(t, items[i], radar_terms)]
      ok == SelectSeq(scored, LAMBDA c : c.ok)
  IN  SortByScoreDesc([i \in 1..Len(ok) |-> ok[i].cand])

\* mutant: the enabled flag is not looked at
EnabledTopicsAll(topics) == topics

EnabledTopics(topics) == SelectSeq(topics, LAMBDA t : t.enabled)

\* per_topic_ranked, in the insertion order of the dict (topic ids are unique)
PerTopicRanked(items, topics, topic_radar_terms) ==
  LET en == EnabledTopics(topics)
  IN  [i \in 1..Len(en) |-> Ranked(items, en[i], topic_radar_terms)]

\* -------------------------------------------------------------- allocator
\* mutant: the fallback entry carries the score of one keyword hit
FallbackEntryScoredOne(t, fb, topic_radar_terms) ==
  [topic_id |-> t.id, topic_name |-> t.name, score |-> 10, item |-> fb,
   base_hits |-> <<>>, radar_hits |-> <<>>,
   used_radar_terms |-> RadarGet(topic_radar_terms, t.id), is_fallback |-> TRUE]

FallbackEntry(t, fb, topic_radar_terms) ==
  [topic_id |-> t.id, topic_name |-> t.name, score |-> 5, item |-> fb,
   base_hits |-> <<>>, radar_hits |-> <<>>,
   used_radar_terms |-> RadarGet(topic_radar_terms, t.id), is_fallback |-> TRUE]

\* mutant: the placeholder is built from the fallback entry's literals
PlaceholderLikeFallback(t, topic_radar_terms) ==
  [topic_id |-> t.id, topic_name |-> t.name, score |-> 5, item |-> None,
   base_hits |-> <<>>, radar_hits |-> <<>>,
   used_radar_terms |-> RadarGet(topic_radar_terms, t.id), is_fallback |-> TRUE]

PlaceholderEntry(t, topic_radar_terms) ==
  [topic_id |-> t.id, topic_name |-> t.name, score |-> 0, item |-> None,
   base_hits |-> <<>>, radar_hits |-> <<>>,
   used_radar_terms |-> RadarGet(topic_radar_terms, t.id), is_fallback |-> FALSE]

\* the strict loop of Pass 1 over one topic's ranked list;
\* acc is [picked, used, count]
RECURSIVE FloorLoop(_, _, _)
FloorLoop(ranked, acc, min_per_topic) ==
  IF ranked = <<>> THEN acc
  ELSE LET cand == Head(ranked)
           link == cand.item.link
       IN  IF link \in acc.used
           THEN FloorLoop(Tail(ranked), acc, min_per_topic)
           ELSE LET a2 == [picked |-> Append(acc.picked, cand),
                           used |-> acc.used \cup {link},
                           count |-> acc.count + 1]
                IN  IF a2.count >= min_per_topic THEN a2
                    ELSE FloorLoop(Tail(ranked), a2, min_per_topic)

\* mutant: a topic without strict or fallback item gets no placeholder
Pass1TopicNoPlaceholder(acc, t, ranked, items, min_per_topic, topic_radar_terms) ==
  LET f == FloorLoop(ranked,
                     [picked |-> acc.picked, used |-> acc.used, count |-> 0],
                     min_per_topic)
      fb == pick_fallback_item(items, t, f.used)
  IN  IF f.count < min_per_topic /\ fb # None
      THEN [picked |-> Append(f.picked,
                              FallbackEntry(t, fb, topic_radar_terms)),
            used |-> f.used \cup {fb.link}]
      ELSE [picked |-> f.picked, used |-> f.used]

\* one turn of the Pass-1 loop: strict picks, then fallback or placeholder
Pass1Topic(acc, t, ranked, items, min_per_topic, topic_radar_terms) ==
  LET f == FloorLoop(ranked,
                     [picked |-> acc.picked, used |-> acc.used, count |-> 0],
                     min_per_topic)
      fb == pick_fallback_item(items, t, f.used)
  IN  IF f.count < min_per_topic
      THEN IF fb # None
           THEN [picked |-> Append(f.picked,
                                   FallbackEntry(t, fb, topic_radar_terms)),
                 used |-> f.used \cup {fb.link}]
           ELSE [picked |-> Append(f.picked,
                                   PlaceholderEntry(t, topic_radar_terms)),
                 used |-> f.used]
      ELSE [picked |-> f.picked, used |-> f.used]

\* Pass 1 over the first n enabled topics; en is enabled_topics and
\* per_topic_ranked[i] the ranked list of en[i]
RECURSIVE Pass1Upto(_, _, _, _, _, _)
Pass1Upto(n, items, en, per_topic_ranked, min_per_topic, topic_radar_terms) ==
  IF n = 0 THEN [picked |-> <<>>, used |-> {}]
  ELSE Pass1Topic(Pass1Upto(n - 1, items, en, per_topic_ranked, min_per_topic,
                            topic_radar_terms),
                  en[n], per_topic_ranked[n],
                  items, min_per_topic, topic_radar_terms)

Pass1(items, topics, min_per_topic, topic_radar_terms) ==
  LET en == EnabledTopics(topics)
      per_topic_ranked == PerTopicRanked(items, topics, topic_radar_terms)
  IN  Pass1Upto(Len(en), items, en, per_topic_ranked, min_per_topic,
                topic_radar_terms)

_real_count(picked_entries) ==
  Cardinality({i \in 1..Len(picked_entries) : picked_entries[i].item # None})

RECURSIVE Flatten(_)
Flatten(ss) == IF ss = <<>> THEN <<>> ELSE Head(ss) \o Flatten(Tail(ss))

\* mutant: `remaining` is left in collection order
RemainingUnsorted(per_topic_ranked, used_links) ==
  SelectSeq(Flatten(per_topic_ranked),
            LAMBDA cand : cand.item.link \notin used_links)

\* `remaining` of Pass 2: the unused candidates of every ranked list, sorted
Remaining(per_topic_ranked, used_links) ==
  SortByScoreDesc(SelectSeq(Flatten(per_topic_ranked),
                            LAMBDA cand : cand.item.link \notin used_links))

\* mutant: the fill loop never looks at max_items
RECURSIVE FillLoopUncapped(_, _, _)
FillLoopUncapped(remaining, acc, max_items) ==
  IF remaining = <<>> THEN acc
  ELSE LET cand == Head(remaining)
           link == cand.item.link
       IN  IF link \in acc.used
           THEN FillLoopUncapped(Tail(remaining), acc, max_items)
           ELSE FillLoopUncapped(Tail(remaining),
                                 [picked |-> Append(acc.picked, cand),
                                  used |-> acc.used \cup {link}],
                                 max_items)

\* the fill loop of Pass 2; acc is [picked, used]
RECURSIVE FillLoop(_, _, _)
FillLoop(remaining, acc, max_items) ==
  IF remaining = <<>> THEN acc
  ELSE IF _real_count(acc.picked) >= max_items THEN acc
  ELSE LET cand == Head(remaining)
           link == cand.item.link
       IN  IF link \in acc.used
           THEN FillLoop(Tail(remaining), acc, max_items)
           ELSE FillLoop(Tail(remaining),
                         [picked |-> Append(acc.picked, cand),
                          used |-> acc.used \cup {link}],
                         max_items)

\* mutant: Pass 2 fills nothing
Pass2NoFill(p1, per_topic_ranked, max_items) == p1

Pass2(p1, per_topic_ranked, max_items) ==
  IF _real_count(p1.picked) < max_items
  THEN FillLoop(Remaining(per_topic_ranked, p1.used), p1, max_items)
  ELSE p1

\* per_topic_ranked and the result of Pass 1 are computed once and handed on
\* the body of pick_by_topic: what it returns, and the length of
\* picked_entries when Pass 1 ended
PickTrace(items, topics, max_items, min_per_topic, topic_radar_terms) ==
  LET en == EnabledTopics(topics)
  IN  IF en = <<>> THEN [picked |-> <<>>, pass1 |-> 0]
      ELSE CHOOSE r \in
             UNION { { [picked |-> Pass2(p1, per_topic_ranked, max_items).picked,
                        pass1 |-> Len(p1.picked)] :
                         p1 \in {Pass1Upto(Len(en), items, en, per_topic_ranked,
                                           min_per_topic, topic_radar_terms)} } :
                     per_topic_ranked \in
                       {PerTopicRanked(items, topics, topic_radar_terms)} } :
             TRUE

pick_by_topic(items, topics, max_items, min_per_topic, topic_radar_terms) ==
  PickTrace(items, topics, max_items, min_per_topic, topic_radar_terms).picked

\* ------------------------------------------------------------ radar terms
\* list(dict.fromkeys(xs)): drop repeats, keep first occurrences in order
RECURSIVE DedupKeepOrder(_)
DedupKeepOrder(xs) ==
  IF xs = <<>> THEN <<>>
  ELSE LET front == DedupKeepOrder(SubSeq(xs, 1, Len(xs) - 1))
       IN  _add_hit(front, xs[Len(xs)])

Take(s, n) == SubSeq(s, 1, IF Len(s) < n THEN Len(s) ELSE n)

\* the `related` flag of map_threads_terms_to_topics for one term and topic
Related(term, t) ==
  LET term_l == Strip(Lower(term))
      keys == t.keywords \o t.guard.must_include_any
  IN  \E i \in 1..Len(keys) :
        LET kl == Strip(Lower(keys[i]))
        IN  kl # <<>> /\ (Contains(kl, term_l) \/ Contains(term_l, kl))

map_threads_terms_to_topics(terms, topics, max_per_topic) ==
  LET en == EnabledTopics(topics)
      ids == {en[i].id : i \in 1..Len(en)}
      topicOf(tid) == CHOOSE t \in {en[i] : i \in 1..Len(en)} : t.id = tid
  IN  [tid \in ids |->
         Take(SelectSeq(terms, LAMBDA term : /\ Strip(Lower(term)) # <<>>
                                             /\ Related(term, topicOf(tid))),
              max_per_topic)]

\* ---------------------------------------------------------- delay tracker
\* datetime.isoformat() and datetime.fromisoformat()
IsoFormat(t) == [iso |-> t]

\* does fromisoformat(s) return (it raises on None and on other text)
IsIso(s) == "iso" \in DOMAIN s

FromIso(s) == s.iso

\* the links of the entries of a stored list that have one
LinksOf(entries) ==
  {entries[i].link : i \in {j \in 1..Len(entries) : entries[j].link # <<>>}}

NewWatch(p, now, delay_hours) ==
  [topic_id |-> IF p.topic_id = "" THEN "unknown" ELSE p.topic_id,
   topic_name |-> p.topic_name,
   title |-> p.item.title,
   link |-> p.item.link,
   published |-> IsoFormat(p.item.published),
   saved_at |-> IsoFormat(now),
   due_at |-> IsoFormat(now + delay_hours),
   score |-> p.score,
   base_hits |-> p.base_hits]

CountOf(topic_counts, tid) ==
  IF tid \in DOMAIN topic_counts THEN topic_counts[tid] ELSE 0

\* mutant: the candidate loop does not consult seen_links
CollectStepWithoutSeen(acc, p, now, delay_cfg) ==
  LET tid == IF p.topic_id = "" THEN "unknown" ELSE p.topic_id
      n == CountOf(acc.counts, tid) + 1
      counts2 == [x \in DOMAIN acc.counts \cup {tid} |->
                    IF x = tid THEN n ELSE acc.counts[x]]
  IN  IF p.item = None THEN acc
      ELSE IF p.score < delay_cfg.min_score_to_watch THEN acc
      ELSE IF p.item.link = <<>> THEN acc
      ELSE IF n > delay_cfg.max_candidates_per_topic
           THEN [acc EXCEPT !.counts = counts2]
      ELSE [watching |-> Append(acc.watching,
                                NewWatch(p, now, delay_cfg.delay_hours)),
            seen |-> acc.seen \cup {p.item.link},
            counts |-> counts2,
            added |-> Append(acc.added, p.item.link)]


\* mutant: the per-topic cap is not tested
CollectStepUncapped(acc, p, now, delay_cfg) ==
  LET tid == IF p.topic_id = "" THEN "unknown" ELSE p.topic_id
      n == CountOf(acc.counts, tid) + 1
      counts2 == [x \in DOMAIN acc.counts \cup {tid} |->
                    IF x = tid THEN n ELSE acc.counts[x]]
  IN  IF p.item = None THEN acc
      ELSE IF p.score < delay_cfg.min_score_to_watch THEN acc
      ELSE IF p.item.link = <<>> \/ p.item.link \in acc.seen THEN acc
      ELSE [watching |-> Append(acc.watching,
                                NewWatch(p, now, delay_cfg.delay_hours)),
            seen |-> acc.seen \cup {p.item.link},
            counts |-> counts2,
            added |-> Append(acc.added, p.item.link)]

\* one turn of the candidate loop; acc is [watching, seen, counts, added]
CollectStep(acc, p, now, delay_cfg) ==
  LET tid == IF p.topic_id = "" THEN "unknown" ELSE p.topic_id
      n == CountOf(acc.counts, tid) + 1
      counts2 == [x \in DOMAIN acc.counts \cup {tid} |->
                    IF x = tid THEN n ELSE acc.counts[x]]
  IN  IF p.item = None THEN acc
      ELSE IF p.score < delay_cfg.min_score_to_watch THEN acc
      ELSE IF p.item.link = <<>> \/ p.item.link \in acc.seen THEN acc
      ELSE IF n > delay_cfg.max_candidates_per_topic
           THEN [acc EXCEPT !.counts = counts2]
      ELSE [watching |-> Append(acc.watching,
                                NewWatch(p, now, delay_cfg.delay_hours)),
            seen |-> acc.seen \cup {p.item.link},
            counts |-> counts2,
            added |-> Append(acc.added, p.item.link)]

RECURSIVE CollectLoop(_, _, _, _)
CollectLoop(acc, ps, now, delay_cfg) ==
  IF ps = <<>> THEN acc
  ELSE CollectLoop(CollectStep(acc, Head(ps), now, delay_cfg),
                   Tail(ps), now, delay_cfg)

\* terms_l: stripped, non-empty, lowercased
TermsL(threads_terms_all) ==
  LET st == [i \in 1..Len(threads_terms_all) |-> Strip(threads_terms_all[i])]
      ne == SelectSeq(st, LAMBDA x : x # <<>>)
  IN  [i \in 1..Len(ne) |-> Lower(ne[i])]

MatchedTerms(w, terms_l) ==
  LET blob == Lower(w.title \o <<" ">> \o w.link)
  IN  SelectSeq(terms_l, LAMBDA t : t # <<>> /\ Contains(t, blob))

\* mutant: an entry due exactly now is kept for the next run
IsDueStrictlyPast(w, now) == IsIso(w.due_at) /\ FromIso(w.due_at) < now

\* is this watching entry moved to done at time now
IsDue(w, now) == IsIso(w.due_at) /\ ~(FromIso(w.due_at) > now)

\* w2: the record appended to done
Matured(w, now, terms_l) ==
  [topic_id |-> w.topic_id, topic_name |-> w.topic_name, title |-> w.title,
   link |-> w.link, published |-> w.published, saved_at |-> w.saved_at,
   due_at |-> w.due_at, score |-> w.score, base_hits |-> w.base_hits,
   checked_at |-> IsoFormat(now),
   threads_matched_terms |-> Take(MatchedTerms(w, terms_l), 10),
   fermented |-> MatchedTerms(w, terms_l) # <<>>]

\* done[-n:]
LastN(s, n) == IF Len(s) <= n THEN s ELSE SubSeq(s, Len(s) - n + 1, Len(s))

\* mutant: the cap keeps the head of the list: done[:500]
CapHistoryKeepingOldest(d) == SubSeq(d, 1, IF Len(d) < 500 THEN Len(d) ELSE 500)

\* done[-500:]
CapHistory(d) == LastN(d, 500)

\* the body of update_delayed_watchlist after the enabled test, on the
\* state read from the store; the result carries the state written back
TrackerRun(st_watching, st_done, picks_, now_, threads_terms_all, delay_cfg) ==
  LET c == CollectLoop([watching |-> st_watching,
                        seen |-> LinksOf(st_watching) \cup LinksOf(st_done),
                        counts |-> <<>>, added |-> <<>>],
                       picks_, now_, delay_cfg)
      terms_l == TermsL(threads_terms_all)
      remained == SelectSeq(c.watching, LAMBDA w : ~IsDue(w, now_))
      due == SelectSeq(c.watching, LAMBDA w : IsDue(w, now_))
      moved == [i \in 1..Len(due) |-> Matured(due[i], now_, terms_l)]
      ferm == Cardinality({i \in 1..Len(moved) : moved[i].fermented})
      total == LET D == DOMAIN c.counts
                   RECURSIVE Sum(_)
                   Sum(S) == IF S = {} THEN 0
                             ELSE LET x == CHOOSE y \in S : TRUE
                                  IN  c.counts[x] + Sum(S \ {x})
               IN  Sum(D)
  IN  [watching |-> remained,
       done |-> CapHistory(st_done \o moved),
       added |-> c.added,
       status |-> [enabled |-> TRUE, added_today |-> total,
                   matured_checked |-> Len(due), fermented |-> ferm,
                   watching_now |-> Len(remained)]]

\* ------------------------------------------------------------------ state
VARIABLES
  call,         \* SpecPick: the arguments pick_by_topic is called with
  picks,        \* the PickSet the last pick_by_topic call returned
  wcall,        \* arguments of the last update_delayed_watchlist call
  status,       \* the delay_status it returned
  watching,     \* data/delayed_watch.json: "watching"
  done,         \* data/delayed_watch.json: "done"
  now,          \* the clock, in hours
  runs,         \* digests generated so far
  added_links,  \* history: links given a watching entry by the last run
  tracked,      \* history: feed links given an entry before the last run
  ret,          \* what the function called on its own returned; SpecPick:
                \* where Pass 1 ended in the list pick_by_topic returned
  sha,          \* SpecStore: the blob sha of data/delayed_watch.json;
                \* SpecUsers: the one of data/users.json
  proc,         \* SpecStore, SpecUsers: the runs in flight, one per process
  deliv         \* SpecDeliver: the delivery loop of main, with
                \* data/users.json; SpecUsers: data/users.json

vars == <<call, picks, wcall, status, watching, done, now, runs,
          added_links, tracked, ret, sha, proc, deliv>>

\* no run in flight, no delivery under way
Quiet == sha = 0 /\ proc = None /\ deliv = None

\* ------------------------------------------------------ the digest pipeline
Min(a, b) == IF a < b THEN a ELSE b

\* the arguments generate_today_digest builds for pick_by_topic
DigestCall(cfg, for_new_user, pool, th) ==
  LET threads_tw == th.tw
      threads_global == th.global
      merged == DedupKeepOrder(threads_tw \o threads_global)
      ids == {cfg.topics[i].id : i \in 1..Len(cfg.topics)}
  IN  [items |-> pool,
       topics |-> cfg.topics,
       max_items |-> IF for_new_user THEN Min(3, cfg.max_items)
                     ELSE cfg.max_items,
       min_per_topic |-> IF for_new_user THEN 1 ELSE cfg.min_per_topic,
       topic_radar_terms |->
         IF cfg.radar_enabled
         THEN map_threads_terms_to_topics(merged, cfg.topics,
                                          cfg.max_terms_per_topic)
         ELSE [tid \in ids |-> <<>>]]

ThreadsAll(cfg, th) == DedupKeepOrder(th.tw \o th.global)

PickOf(c) ==
  pick_by_topic(c.items, c.topics, c.max_items, c.min_per_topic,
                c.topic_radar_terms)

update_delayed_watchlist(delay_cfg, picks_, now_, threads_terms_all) ==
  IF ~delay_cfg.enabled
  THEN /\ status' = [enabled |-> FALSE]
       /\ added_links' = <<>>
       /\ tracked' = tracked \cup {added_links[i] : i \in 1..Len(added_links)}
       /\ UNCHANGED <<watching, done>>
  ELSE \E r \in {TrackerRun(watching, done, picks_, now_, threads_terms_all,
                             delay_cfg)} :
           /\ watching' = r.watching
           /\ done' = r.done
           /\ status' = r.status
           /\ added_links' = r.added
           /\ tracked' = tracked \cup
                         {added_links[i] : i \in 1..Len(added_links)}

\* the trend collectors are called only when the radar is enabled
NoThreads == [tw |-> <<>>, global |-> <<>>]

\* pick_by_topic is pure: its result for the inputs of every run of this
\* model, evaluated once
RunKeys == Configs \X BOOLEAN \X FeedPools \X (ThreadsChoices \cup {NoThreads})

RunTable ==
  [k \in RunKeys |-> PickOf(DigestCall(k[1], k[2], k[3], k[4]))] @@ <<>>

PicksOfRun(cfg, for_new_user, pool, th) ==
  IF <<cfg, for_new_user, pool, th>> \in RunKeys
  THEN RunTable[<<cfg, for_new_user, pool, th>>]
  ELSE PickOf(DigestCall(cfg, for_new_user, pool, th))

generate_today_digest(cfg, for_new_user, pool, th) ==
  \E p \in {PicksOfRun(cfg, for_new_user, pool, th)} :
      /\ runs < MaxRuns
      /\ picks' = p
      /\ wcall' = [now |-> now, threads_terms_all |-> ThreadsAll(cfg, th),
                   delay_cfg |-> cfg.delay]
      /\ update_delayed_watchlist(cfg.delay, p, now, ThreadsAll(cfg, th))
      /\ runs' = runs + 1
      /\ UNCHANGED <<call, now, ret, sha, proc, deliv>>

CollectorRuns(cfg) == IF cfg.radar_enabled THEN ThreadsChoices ELSE {NoThreads}

\* the scheduled run
main ==
  \E cfg \in Configs, pool \in FeedPools :
    \E th \in CollectorRuns(cfg) :
      generate_today_digest(cfg, FALSE, pool, th)

\* a follow event: the welcome digest
webhook ==
  \E cfg \in Configs, pool \in FeedPools :
    \E th \in CollectorRuns(cfg) :
      generate_today_digest(cfg, TRUE, pool, th)

Tick ==
  /\ now < MaxNow
  /\ now' = now + 1
  /\ UNCHANGED <<call, picks, wcall, status, watching, done, runs,
                 added_links, tracked, ret, sha, proc, deliv>>

\* ------------------------------------------------------- the stored state
HistLink(n) == <<"h", "/", ToString(n)>>

\* an entry of done as an earlier run left it
HistEntry(title, link, n) ==
  [topic_id |-> "tech", topic_name |-> "Tech", title |-> title, link |-> link,
   published |-> IsoFormat(0 - 9), saved_at |-> IsoFormat(0 - 8),
   due_at |-> IsoFormat(0 - 6), score |-> 30, base_hits |-> <<>>,
   checked_at |-> IsoFormat(0 - 5), threads_matched_terms |-> <<>>,
   fermented |-> FALSE]

\* a history of n entries whose oldest entry is the one of Item1
History(n) ==
  [i \in 1..n |-> IF i = 1 THEN HistEntry(Item1.title, Item1.link, 1)
                  ELSE HistEntry(<<"o", "l", "d">>, HistLink(i), i)]

\* a watching entry an earlier run left, due at hour 1
OldWatch ==
  [topic_id |-> "tech", topic_name |-> "Tech", title |-> Item6.title,
   link |-> Item6.link, published |-> IsoFormat(0 - 1),
   saved_at |-> IsoFormat(0 - 1), due_at |-> IsoFormat(1), score |-> 30,
   base_hits |-> <<>>]

Stores ==
  { [watching |-> <<>>, done |-> <<>>],
    [watching |-> <<OldWatch>>, done |-> History(500)] }

Init ==
  /\ call = None
  /\ picks = <<>>
  /\ wcall = None
  /\ status = None
  /\ \E st \in Stores : watching = st.watching /\ done = st.done
  /\ now = 0
  /\ runs = 0
  /\ added_links = <<>>
  /\ tracked = {it.link : it \in Catalogue} \cap
                 (LinksOf(watching) \cup LinksOf(done))
  /\ ret = None
  /\ Quiet

Next == main \/ webhook \/ Tick

Spec == Init /\ [][Next]_vars

\* ------------------------------------------- pick_by_topic on its own
\* the topic_radar_terms maps generate_today_digest can build for a list
RadarMaps(topics) ==
  { [tid \in {topics[i].id : i \in 1..Len(topics)} |-> <<>>] } \cup
  { map_threads_terms_to_topics(DedupKeepOrder(th.tw \o th.global), topics, 3) :
      th \in ThreadsChoices }

InitPick ==
  /\ \E ts \in TopicLists :
       \E rm \in RadarMaps(ts), its \in Pools, mx \in 0..MaxMaxItems,
          mn \in 0..MaxMinPerTopic :
         call = [items |-> its, topics |-> ts, max_items |-> mx,
                 min_per_topic |-> mn, topic_radar_terms |-> rm]
  /\ picks = <<>>
  /\ wcall = None
  /\ status = None
  /\ watching = <<>>
  /\ done = <<>>
  /\ now = 0
  /\ runs = 0
  /\ added_links = <<>>
  /\ tracked = {}
  /\ ret = None
  /\ Quiet

\* ret records where Pass 1 ended in the returned list
PickCall ==
  /\ runs = 0
  /\ \E r \in {PickTrace(call.items, call.topics, call.max_items,
                          call.min_per_topic, call.topic_radar_terms)} :
       /\ picks' = r.picked
       /\ ret' = [pass1 |-> r.pass1]
  /\ runs' = 1
  /\ UNCHANGED <<call, wcall, status, watching, done, now,
                 added_links, tracked, sha, proc, deliv>>

NextPick == PickCall

SpecPick == InitPick /\ [][NextPick]_vars

\* ---------------------------------------------- guard_pass on its own
\* an item with a keyword in both its title and its summary
Item7 ==
  [title |-> <<"A", "I", " ", "n", "e", "w", "s">>,
   link |-> <<"n", ".", "t", "w", "/", "7">>,
   summary |-> <<"a", "i">>,
   published |-> 0]

GuardTerms == { <<>>, <<"A", "I">>, <<"r", "u", "m", "o", "r">>,
                <<"R", "U", "L", "E">> }

\* a topic's guard: absent or empty (falsy), or a dict with the two lists
Guards ==
  {NoGuard} \cup
  { [configured |-> TRUE, must_include_any |-> m, must_not_include_any |-> b] :
      m \in DistinctSeqs(GuardTerms, MaxGuardTerms),
      b \in DistinctSeqs(GuardTerms, MaxGuardTerms) }

\* the AI topic with the guard under test and no score threshold
GuardedTopic(g) == [TopicAI EXCEPT !.guard = g, !.min_score = 0]

InitGuard ==
  /\ \E it \in Catalogue \cup {Item7}, g \in Guards :
       call = [item |-> it, guard |-> g]
  /\ picks = <<>>
  /\ wcall = None
  /\ status = None
  /\ watching = <<>>
  /\ done = <<>>
  /\ now = 0
  /\ runs = 0
  /\ added_links = <<>>
  /\ tracked = {}
  /\ ret = None
  /\ Quiet

\* guard_pass(item, guard)
GuardCall ==
  /\ ret = None
  /\ ret' = [value |-> guard_pass(call.item, call.guard)]
  /\ UNCHANGED <<call, picks, wcall, status, watching, done, now, runs,
                 added_links, tracked, sha, proc, deliv>>

\* pick_by_topic over the item, for one topic that carries the guard
GuardedPick ==
  /\ runs = 0
  /\ picks' = pick_by_topic(<<call.item>>, <<GuardedTopic(call.guard)>>, 1, 1,
                            [tid \in {"ai_major"} |-> <<>>])
  /\ runs' = 1
  /\ UNCHANGED <<call, wcall, status, watching, done, now,
                 added_links, tracked, ret, sha, proc, deliv>>

NextGuard == GuardCall \/ GuardedPick

SpecGuard == InitGuard /\ [][NextGuard]_vars

\* ---------------------------------------------- score_item on its own
ScoreWords ==
  { <<>>, <<" ">>, <<"A", "I">>, <<"a", "i">>, <<"c", "h", "i", "p">>,
    <<" ", "t", "a", "x">> }

LowLists == { <<>>, << <<"c", "h", "i", "p">> >>,
              << <<" ", "C", "H", "I", "P">>, <<>> >> }

RadarLists == { <<>>, << <<"A", "I">> >>,
                << <<"r", "u", "l", "e">>, <<" ">>, <<"A", "I">> >> }

InitScore ==
  /\ \E it \in Catalogue \cup {Item7},
        ks \in DistinctSeqs(ScoreWords, MaxKeywords),
        low \in LowLists, rts \in RadarLists :
       call = [item |-> it, base_keywords |-> ks, radar_terms |-> rts,
               low_weight_keywords |-> low]
  /\ picks = <<>>
  /\ wcall = None
  /\ status = None
  /\ watching = <<>>
  /\ done = <<>>
  /\ now = 0
  /\ runs = 0
  /\ added_links = <<>>
  /\ tracked = {}
  /\ ret = None
  /\ Quiet

\* score_item(item, base_keywords, radar_terms, low_weight_keywords)
ScoreCall ==
  /\ ret = None
  /\ ret' = score_item(call.item, call.base_keywords, call.radar_terms,
                       call.low_weight_keywords)
  /\ UNCHANGED <<call, picks, wcall, status, watching, done, now, runs,
                 added_links, tracked, sha, proc, deliv>>

NextScore == ScoreCall

SpecScore == InitScore /\ [][NextScore]_vars


\* ------------------------------- the ranking loop of pick_by_topic on its own
InitRank ==
  /\ \E t \in {x \in TopicSet : x.enabled}, its \in Pools, rts \in TermLists :
       call = [items |-> its, topic |-> t,
               topic_radar_terms |-> [tid \in {t.id} |-> rts]]
  /\ picks = <<>>
  /\ wcall = None
  /\ status = None
  /\ watching = <<>>
  /\ done = <<>>
  /\ now = 0
  /\ runs = 0
  /\ added_links = <<>>
  /\ tracked = {}
  /\ ret = None
  /\ Quiet

\* one turn of `for t in enabled_topics`: per_topic_ranked[tid]
RankCall ==
  /\ ret = None
  /\ ret' = [ranked |-> Ranked(call.items, call.topic, call.topic_radar_terms)]
  /\ UNCHANGED <<call, picks, wcall, status, watching, done, now, runs,
                 added_links, tracked, sha, proc, deliv>>

NextRank == RankCall

SpecRank == InitRank /\ [][NextRank]_vars

\* ------------------------- two runs sharing data/delayed_watch.json
\* the scheduled job and the webhook server: two processes, each with its own
\* environment, each running generate_today_digest; the requests to the
\* store are the points where they interleave
Procs == {"main", "webhook"}

\* a process between runs; creds says GITHUB_TOKEN and GITHUB_REPO are set;
\* read_calls and write_calls count the calls of gh_read_json and
\* gh_write_json of the run, gets and puts the requests sent to the store
IdleProc(creds) ==
  [pc |-> "idle", creds |-> creds, picks |-> <<>>, wcall |-> None,
   read_sha |-> None, state2 |-> None, put_sha |-> None, status |-> None,
   read_calls |-> 0, write_calls |-> 0, gets |-> 0, puts |-> 0]

\* mutant: update_delayed_watchlist does not test `enabled`
EntryPcAlwaysRead(enabled) == "read"

\* where update_delayed_watchlist goes after `if not enabled`
EntryPc(enabled) == IF enabled THEN "read" ELSE "returned"

\* what a request to api.github.com can do: answer, or fail with an error
\* status or a connection error, which requests raises
Responses == {"ok", "error"}

SmallStores ==
  { [watching |-> <<>>, done |-> <<>>],
    [watching |-> <<OldWatch>>, done |-> <<>>] }

StorePools == { <<Item1>>, <<Item6>>, <<Item5, Item6>> }

InitStore ==
  /\ call = None
  /\ picks = <<>>
  /\ wcall = None
  /\ status = None
  /\ \E st \in SmallStores : watching = st.watching /\ done = st.done
  /\ now = 0
  /\ runs = 0
  /\ added_links = <<>>
  /\ tracked = {}
  /\ ret = None
  /\ sha = 0
  /\ proc \in [Procs -> {IdleProc(c) : c \in BOOLEAN}]
  /\ deliv = None

\* generate_today_digest up to the call of update_delayed_watchlist, and the
\* early return of the latter when delay tracking is off
StartRun(p) ==
  /\ proc[p].pc \in {"idle", "returned", "raised"}
  /\ runs < MaxRuns
  /\ \E cfg \in Configs, pool \in StorePools :
       \E th \in CollectorRuns(cfg) :
         proc' = [proc EXCEPT ![p] =
           [IdleProc(proc[p].creds) EXCEPT
              !.pc = EntryPc(cfg.delay.enabled),
              !.picks = PicksOfRun(cfg, p = "webhook", pool, th),
              !.wcall = [now |-> now,
                         threads_terms_all |-> ThreadsAll(cfg, th),
                         delay_cfg |-> cfg.delay],
              !.status = IF cfg.delay.enabled THEN None
                         ELSE [enabled |-> FALSE]]]
  /\ runs' = runs + 1
  /\ UNCHANGED <<call, picks, wcall, status, watching, done, now,
                 added_links, tracked, ret, sha, deliv>>

\* gh_read_json and the computation of the new state from what it returned
ReadStore(p) ==
  /\ proc[p].pc = "read"
  /\ \E resp \in IF proc[p].creds THEN Responses ELSE {"none"} :
       \E st \in {IF resp = "ok"
                  THEN [watching |-> watching, done |-> done]
                  ELSE [watching |-> <<>>, done |-> <<>>]} :
         \E r \in {TrackerRun(st.watching, st.done, proc[p].picks,
                              proc[p].wcall.now,
                              proc[p].wcall.threads_terms_all,
                              proc[p].wcall.delay_cfg)} :
           proc' = [proc EXCEPT ![p] =
             IF resp = "error"
             THEN [@ EXCEPT !.pc = "raised", !.read_calls = @ + 1,
                            !.gets = @ + 1]
             ELSE [@ EXCEPT !.pc = "write_get",
                            !.read_calls = @ + 1,
                            !.gets = IF resp = "ok" THEN @ + 1 ELSE @,
                            !.read_sha = IF resp = "ok" THEN [sha |-> sha]
                                         ELSE None,
                            !.state2 = [watching |-> r.watching,
                                        done |-> r.done],
                            !.status = r.status]]
  /\ UNCHANGED <<call, picks, wcall, status, watching, done, now, runs,
                 added_links, tracked, ret, sha, deliv>>

\* gh_write_json, first half: gh_get_text fetches the sha to send
WriteGet(p) ==
  /\ proc[p].pc = "write_get"
  /\ \E resp \in IF proc[p].creds THEN Responses ELSE {"none"} :
       proc' = [proc EXCEPT ![p] =
         IF resp = "error"
         THEN [@ EXCEPT !.pc = "raised", !.status = None,
                        !.write_calls = @ + 1, !.gets = @ + 1]
         ELSE [@ EXCEPT !.pc = "put",
                        !.write_calls = @ + 1,
                        !.gets = IF resp = "ok" THEN @ + 1 ELSE @,
                        !.put_sha = IF resp = "ok" THEN [sha |-> sha]
                                    ELSE None]]
  /\ UNCHANGED <<call, picks, wcall, status, watching, done, now, runs,
                 added_links, tracked, ret, sha, deliv>>

\* gh_write_json, second half: gh_put_text; the store takes the content when
\* the sha sent is the one of the stored blob and answers 409 otherwise
Put(p) ==
  /\ proc[p].pc = "put"
  /\ \E resp \in IF proc[p].creds THEN Responses ELSE {"none"} :
       IF resp = "ok" /\ proc[p].put_sha = [sha |-> sha]
       THEN /\ watching' = proc[p].state2.watching
            /\ done' = proc[p].state2.done
            /\ sha' = sha + 1
            /\ proc' = [proc EXCEPT ![p].pc = "returned", ![p].puts = @ + 1]
       ELSE /\ proc' = [proc EXCEPT ![p].pc = "raised", ![p].status = None,
                                    ![p].puts = IF resp = "none" THEN @
                                                ELSE @ + 1]
            /\ UNCHANGED <<watching, done, sha>>
  /\ UNCHANGED <<call, picks, wcall, status, now, runs, added_links, tracked,
                 ret, deliv>>

NextStore ==
  \/ \E p \in Procs : StartRun(p)
  \/ \E p \in Procs : ReadStore(p)
  \/ \E p \in Procs : WriteGet(p)
  \/ \E p \in Procs : Put(p)
  \/ Tick

SpecStore == InitStore /\ [][NextStore]_vars

\* the scheduled job on its own: one run after the other, no other writer
NextMain ==
  \/ StartRun("main")
  \/ ReadStore("main")
  \/ WriteGet("main")
  \/ Put("main")
  \/ Tick

SpecMain == InitStore /\ [][NextMain]_vars

\* ------------------------------------------- the delivery loop of main
\* subscriber ids, ordered as sorted() orders them
Uids == 1..MaxUsers

\* push.failure_tracking of config.yml
FtConfigs ==
  { [enabled |-> TRUE, auto_remove_user |-> FALSE, auto_remove_threshold |-> 3],
    [enabled |-> TRUE, auto_remove_user |-> TRUE, auto_remove_threshold |-> 1],
    [enabled |-> TRUE, auto_remove_user |-> TRUE, auto_remove_threshold |-> 2],
    [enabled |-> FALSE, auto_remove_user |-> FALSE, auto_remove_threshold |-> 3] }

\* mutant: the count starts over at every failure
FirstFailure(fail_count) == 1

\* count = int(rec.get("fail_count", 0)) + 1
NextFailCount(fail_count) == fail_count + 1

\* main after generate_today_digest returned the message; data/users.json and
\* data/push_failures.json are as earlier runs left them, users_writes counts
\* the writes of data/users.json
InitDeliver ==
  /\ call = None
  /\ picks = <<>>
  /\ wcall = None
  /\ status = None
  /\ watching = <<>>
  /\ done = <<>>
  /\ now = 0
  /\ runs = 0
  /\ added_links = <<>>
  /\ tracked = {}
  /\ ret = None
  /\ sha = 0
  /\ proc = None
  /\ \E us \in DistinctSeqs(Uids, MaxUsers), ft \in FtConfigs,
        fs \in [Uids -> 0..1] :
       deliv = [pc |-> "load", users |-> <<>>, i |-> 1, attempted |-> <<>>,
                ok |-> 0, fail |-> 0, ft |-> ft,
                failures |-> fs, stored_users |-> us, users_writes |-> 0]

\* users = load_repo_users(), and the branch taken when the list is empty
LoadUsers ==
  /\ deliv.pc = "load"
  /\ \E resp \in Responses :
       deliv' = IF resp = "error" THEN [deliv EXCEPT !.pc = "crashed"]
                ELSE [deliv EXCEPT
                        !.users = deliv.stored_users,
                        !.pc = IF deliv.stored_users = <<>> THEN "finished"
                               ELSE "loop"]
  /\ UNCHANGED <<call, picks, wcall, status, watching, done, now, runs,
                 added_links, tracked, ret, sha, proc>>

\* one turn of `for uid in users`: push_text_to_user answers or raises
PushStep ==
  /\ deliv.pc = "loop"
  /\ deliv.i <= Len(deliv.users)
  /\ \E resp \in Responses :
       deliv' = IF resp = "ok"
                THEN [deliv EXCEPT
                        !.attempted = Append(@, deliv.users[deliv.i]),
                        !.ok = @ + 1, !.i = @ + 1]
                ELSE [deliv EXCEPT
                        !.attempted = Append(@, deliv.users[deliv.i]),
                        !.fail = @ + 1, !.pc = "recording"]
  /\ UNCHANGED <<call, picks, wcall, status, watching, done, now, runs,
                 added_links, tracked, ret, sha, proc>>

\* record_push_failure, called in the except clause of the loop body: r1 is
\* what the store does with data/push_failures.json, r2 with data/users.json
RecordFailure ==
  /\ deliv.pc = "recording"
  /\ \E r1 \in Responses, r2 \in Responses :
       LET uid == deliv.users[deliv.i]
           count == NextFailCount(deliv.failures[uid])
           remove == /\ deliv.ft.auto_remove_user
                     /\ count >= deliv.ft.auto_remove_threshold
                     /\ \E k \in 1..Len(deliv.stored_users) :
                          deliv.stored_users[k] = uid
           left == SelectSeq(deliv.stored_users, LAMBDA x : x # uid)
           sorted == [k \in 1..Len(left) |->
                        CHOOSE x \in {left[j] : j \in 1..Len(left)} :
                          Cardinality({y \in {left[j] : j \in 1..Len(left)} :
                                         y < x}) = k - 1]
       IN  deliv' =
             IF ~deliv.ft.enabled THEN [deliv EXCEPT !.pc = "loop", !.i = @ + 1]
             ELSE IF r1 = "error" THEN [deliv EXCEPT !.pc = "crashed"]
             ELSE IF ~remove
                  THEN [deliv EXCEPT !.failures[uid] = count,
                                     !.pc = "loop", !.i = @ + 1]
             ELSE IF r2 = "error"
                  THEN [deliv EXCEPT !.failures[uid] = count,
                                     !.pc = "crashed"]
             ELSE [deliv EXCEPT !.failures[uid] = count,
                                !.stored_users = sorted,
                                !.users_writes = @ + 1,
                                !.pc = "loop", !.i = @ + 1]
  /\ UNCHANGED <<call, picks, wcall, status, watching, done, now, runs,
                 added_links, tracked, ret, sha, proc>>

\* the loop is over: the totals are printed and main returns
LoopExit ==
  /\ deliv.pc = "loop"
  /\ deliv.i > Len(deliv.users)
  /\ deliv' = [deliv EXCEPT !.pc = "finished"]
  /\ UNCHANGED <<call, picks, wcall, status, watching, done, now, runs,
                 added_links, tracked, ret, sha, proc>>

NextDeliver == LoadUsers \/ PushStep \/ RecordFailure \/ LoopExit

SpecDeliver == InitDeliver /\ [][NextDeliver]_vars

\* ------------------------- two writers of data/users.json
\* the scheduled job removing a subscriber (record_push_failure) and the
\* webhook server storing a follower; both have GITHUB_TOKEN and GITHUB_REPO;
\* deliv.stored_users is the list in the repository and sha its blob version
IdleUser ==
  [pc |-> "idle", uid |-> 0, users |-> {}, read_sha |-> None, put_sha |-> None]

\* sorted(list(dict.fromkeys(users))) and sorted(list(users))
SortedUsers(S) ==
  [k \in 1..Cardinality(S) |->
     CHOOSE x \in S : Cardinality({y \in S : y < x}) = k - 1]

InitUsers ==
  /\ call = None
  /\ picks = <<>>
  /\ wcall = None
  /\ status = None
  /\ watching = <<>>
  /\ done = <<>>
  /\ now = 0
  /\ runs = 0
  /\ added_links = <<>>
  /\ tracked = {}
  /\ ret = None
  /\ sha = 0
  /\ proc = [p \in Procs |-> IdleUser]
  /\ \E S \in SUBSET Uids : deliv = [stored_users |-> SortedUsers(S)]

\* record_push_failure at the threshold: users = load_repo_users(), which
\* drops the sha of what it read, and the test `uid in users`
RemoveLoad ==
  /\ proc["main"].pc = "idle"
  /\ runs < MaxRuns
  /\ \E uid \in Uids, resp \in Responses :
       \E users \in {{deliv.stored_users[k] : k \in 1..Len(deliv.stored_users)}} :
         proc' = [proc EXCEPT !["main"] =
           IF resp = "error" THEN [IdleUser EXCEPT !.pc = "raised", !.uid = uid]
           ELSE IF uid \notin users THEN [IdleUser EXCEPT !.uid = uid]
           ELSE [IdleUser EXCEPT !.pc = "write_get", !.uid = uid,
                                 !.users = users \ {uid},
                                 !.read_sha = [sha |-> sha]]]
  /\ runs' = runs + 1
  /\ UNCHANGED <<call, picks, wcall, status, watching, done, now,
                 added_links, tracked, ret, sha, deliv>>

\* save_repo_users -> gh_write_json, first half: the GET for the sha
RemoveGet ==
  /\ proc["main"].pc = "write_get"
  /\ \E resp \in Responses :
       proc' = [proc EXCEPT !["main"] =
         IF resp = "error" THEN [@ EXCEPT !.pc = "raised"]
         ELSE [@ EXCEPT !.pc = "put", !.put_sha = [sha |-> sha]]]
  /\ UNCHANGED <<call, picks, wcall, status, watching, done, now, runs,
                 added_links, tracked, ret, sha, deliv>>

\* gh_write_json, second half: the PUT with the sha just fetched
RemovePut ==
  /\ proc["main"].pc = "put"
  /\ \E resp \in Responses :
       IF resp = "ok" /\ proc["main"].put_sha = [sha |-> sha]
       THEN /\ deliv' = [deliv EXCEPT
                           !.stored_users = SortedUsers(proc["main"].users)]
            /\ sha' = sha + 1
            /\ proc' = [proc EXCEPT !["main"].pc = "idle"]
       ELSE /\ proc' = [proc EXCEPT !["main"].pc = "raised"]
            /\ UNCHANGED <<sha, deliv>>
  /\ UNCHANGED <<call, picks, wcall, status, watching, done, now, runs,
                 added_links, tracked, ret>>

\* webhook on a follow event: users, sha = load_users_from_github() and
\* users.add(uid); the welcome digest is generated and pushed before the save
FollowLoad ==
  /\ proc["webhook"].pc = "idle"
  /\ runs < MaxRuns
  /\ \E uid \in Uids, resp \in Responses :
       \E users \in {{deliv.stored_users[k] : k \in 1..Len(deliv.stored_users)}} :
         proc' = [proc EXCEPT !["webhook"] =
           IF resp = "error" THEN [IdleUser EXCEPT !.pc = "raised", !.uid = uid]
           ELSE IF uid \in users THEN [IdleUser EXCEPT !.uid = uid]
           ELSE [IdleUser EXCEPT !.pc = "put", !.uid = uid,
                                 !.users = users \cup {uid},
                                 !.read_sha = [sha |-> sha],
                                 !.put_sha = [sha |-> sha]]]
  /\ runs' = runs + 1
  /\ UNCHANGED <<call, picks, wcall, status, watching, done, now,
                 added_links, tracked, ret, sha, deliv>>

\* save_users_to_github(users, sha): the PUT with the sha read with the list
FollowPut ==
  /\ proc["webhook"].pc = "put"
  /\ \E resp \in Responses :
       IF resp = "ok" /\ proc["webhook"].put_sha = [sha |-> sha]
       THEN /\ deliv' = [deliv EXCEPT
                           !.stored_users = SortedUsers(proc["webhook"].users)]
            /\ sha' = sha + 1
            /\ proc' = [proc EXCEPT !["webhook"].pc = "idle"]
       ELSE /\ proc' = [proc EXCEPT !["webhook"].pc = "raised"]
            /\ UNCHANGED <<sha, deliv>>
  /\ UNCHANGED <<call, picks, wcall, status, watching, done, now, runs,
                 added_links, tracked, ret>>

\* the process is started again after an error
Restart ==
  /\ \E p \in Procs :
       /\ proc[p].pc = "raised"
       /\ proc' = [proc EXCEPT ![p] = IdleUser]
  /\ UNCHANGED <<call, picks, wcall, status, watching, done, now, runs,
                 added_links, tracked, ret, sha, deliv>>

NextUsers ==
  RemoveLoad \/ RemoveGet \/ RemovePut \/ FollowLoad \/ FollowPut \/ Restart

SpecUsers == InitUsers /\ [][NextUsers]_vars

\* ------------------------------------ the tracker run again and again
InitLive ==
  /\ call = None
  /\ picks = <<>>
  /\ wcall = None
  /\ status = None
  /\ \E st \in SmallStores : watching = st.watching /\ done = st.done
  /\ now = 0
  /\ runs = 0
  /\ added_links = <<>>
  /\ tracked = {it.link : it \in Catalogue} \cap
                 (LinksOf(watching) \cup LinksOf(done))
  /\ ret = None
  /\ Quiet

\* the feeds of the recurring runs
LivePools == { <<>>, <<Item1>>, <<Item1, Item6>> }

\* a scheduled run of generate_today_digest under one of the given configs;
\* runs counts them up to MaxRuns
LiveRunOf(cfgs) ==
  \E cfg \in cfgs, pool \in LivePools :
    \E th \in CollectorRuns(cfg) :
      \E p \in {PicksOfRun(cfg, FALSE, pool, th)} :
        /\ picks' = p
        /\ wcall' = [now |-> now, threads_terms_all |-> ThreadsAll(cfg, th),
                     delay_cfg |-> cfg.delay]
        /\ update_delayed_watchlist(cfg.delay, p, now, ThreadsAll(cfg, th))
        /\ runs' = IF runs < MaxRuns THEN runs + 1 ELSE runs
        /\ UNCHANGED <<call, now, ret, sha, proc, deliv>>

LiveRun == LiveRunOf(Configs)

\* the runs that have delay tracking enabled
TrackingRun == LiveRunOf({cfg \in Configs : cfg.delay.enabled})

NextLive == LiveRun \/ Tick

\* the clock advances and runs with delay tracking enabled keep coming
SpecLive ==
  InitLive /\ [][NextLive]_vars /\ WF_vars(Tick) /\ WF_vars(TrackingRun)

\* ===================================================== the allocator claims
Called == runs = 1

NonNull(e) == e.item # None

Strict(e) == e.item # None /\ ~e.is_fallback

\* the enabled topics of the call, and the position of a topic id among them
En == EnabledTopics(call.topics)

TopicIdx(tid) == CHOOSE i \in 1..Len(En) : En[i].id = tid

TopicById(tid) == En[TopicIdx(tid)]

\* what Pass 1 alone returns for the call; the call recorded how many
\* entries that is
P1 == Pass1(call.items, call.topics, call.min_per_topic, call.topic_radar_terms)

P1Len == IF ret = None THEN 0 ELSE ret.pass1

Max(a, b) == IF a > b THEN a ELSE b

\* the items of a pool have pairwise different links
Distinct(q) == \A i, j \in 1..Len(q) : i # j => q[i].link # q[j].link

\* C1: the non-null entries of the returned list have pairwise different
\* links, whichever of the strict, fallback and fill steps added them
C1_UniqueLinks ==
  Called =>
    \A i, j \in 1..Len(picks) :
      (i < j /\ NonNull(picks[i]) /\ NonNull(picks[j]))
        => picks[i].item.link # picks[j].item.link

\* a call that returned a strict pick, a fallback pick and a Pass-2 fill pick
C1_Witness ==
  /\ Called
  /\ Distinct(call.items)
  /\ \E i \in 1..P1Len : Strict(picks[i])
  /\ \E i \in 1..P1Len : picks[i].is_fallback
  /\ Len(picks) > P1Len

\* C2 as stated: every enabled topic has an entry, for every min_per_topic >= 0
C2_CoverageAnyFloor ==
  Called =>
    \A n \in 1..Len(En) : \E i \in 1..Len(picks) : picks[i].topic_id = En[n].id

\* C2 amended: with min_per_topic >= 1 every enabled topic has an entry
C2_Coverage ==
  (Called /\ call.min_per_topic >= 1) =>
    \A n \in 1..Len(En) : \E i \in 1..Len(picks) : picks[i].topic_id = En[n].id

\* a topic covered by its placeholder only, next to one covered by a strict pick
C2_Witness ==
  /\ Called
  /\ call.min_per_topic >= 1
  /\ \E n \in 1..Len(En) :
       \A i \in 1..Len(picks) :
         picks[i].topic_id = En[n].id => picks[i].item = None
  /\ \E i \in 1..Len(picks) : Strict(picks[i])

\* C3 as stated: the non-null entries never outnumber max_items
C3_WithinMaxItems == Called => _real_count(picks) <= call.max_items

\* C3 amended: Pass 1 is never cut (at most max(1, min_per_topic) non-null
\* entries per enabled topic) and the non-null entries never outnumber the
\* larger of max_items and what Pass 1 emitted
C3_WithinMaxOrFloor ==
  Called =>
    \A k \in {P1Len} :
      /\ _real_count(picks)
           <= Max(call.max_items, _real_count(SubSeq(picks, 1, k)))
      /\ \A n \in 1..Len(En) :
           Cardinality({i \in 1..k :
                          picks[i].topic_id = En[n].id /\ NonNull(picks[i])})
             <= Max(1, call.min_per_topic)
      /\ Len(picks) > k => _real_count(picks) <= call.max_items

\* Pass 1 alone emitted more non-null entries than a positive max_items
C3_Witness ==
  /\ Called
  /\ _real_count(picks) > call.max_items
  /\ call.max_items >= 1

\* C4: a non-null, non-fallback entry scores at least its topic's min_score
C4_StrictMeetsMinScore ==
  Called =>
    \A i \in 1..Len(picks) :
      Strict(picks[i]) => picks[i].score >= TopicById(picks[i].topic_id).min_score

\* a strict Pass-1 entry of a topic with a positive threshold and a strict
\* Pass-2 entry, while an item of the pool passed a guard but not the threshold
C4_Witness ==
  /\ Called
  /\ \E i \in 1..P1Len :
       Strict(picks[i]) /\ TopicById(picks[i].topic_id).min_score > 0
  /\ \E i \in (P1Len + 1)..Len(picks) : Strict(picks[i])
  /\ \E n \in 1..Len(En), k \in 1..Len(call.items) :
       /\ guard_pass(call.items[k], En[n].guard)
       /\ Candidate(En[n], call.items[k],
                    RadarGet(call.topic_radar_terms, En[n].id)).score
            < En[n].min_score

\* C5: a null item comes with score 0 and is_fallback false, and a fallback
\* entry has an item
C5_PlaceholderShape ==
  Called =>
    \A i \in 1..Len(picks) :
      /\ picks[i].item = None => (picks[i].score = 0 /\ ~picks[i].is_fallback)
      /\ picks[i].is_fallback => picks[i].item # None

\* a PickSet with a placeholder and a fallback entry
C5_Witness ==
  /\ Called
  /\ \E i \in 1..Len(picks) : picks[i].item = None
  /\ \E i \in 1..Len(picks) : picks[i].is_fallback

\* the links of the non-null entries among the first n of the returned list
LinksBefore(n) ==
  {picks[j].item.link : j \in {m \in 1..n : NonNull(picks[m])}}

\* C6: first the Pass-1 entries, one block per enabled topic in configured
\* order with the strict picks before the fallback or placeholder, then the
\* Pass-2 entries by non-increasing score, each the best candidate of any
\* topic whose link was still unused when it was added
C6_Order ==
  Called =>
    \A k \in {P1Len} :
      /\ k <= Len(picks)
      /\ \A i, j \in 1..k :
           i < j => /\ TopicIdx(picks[i].topic_id) <= TopicIdx(picks[j].topic_id)
                    /\ picks[i].topic_id = picks[j].topic_id => Strict(picks[i])
      /\ \A i, j \in (k + 1)..Len(picks) :
           i < j => picks[i].score >= picks[j].score
      /\ \A i \in (k + 1)..Len(picks) :
           /\ Strict(picks[i])
           /\ \A n \in 1..Len(En) :
                \A r \in {Ranked(call.items, En[n], call.topic_radar_terms)} :
                  \A c \in 1..Len(r) :
                    r[c].item.link \notin LinksBefore(i - 1)
                      => r[c].score <= picks[i].score

\* max_items = 3, two topics with one Pass-1 pick each and a fill pick that
\* outscores the second topic's pick yet comes last
C6_Witness ==
  /\ Called
  /\ call.max_items = 3
  /\ Len(picks) = 3
  /\ P1Len = 2
  /\ picks[1].topic_id # picks[2].topic_id
  /\ picks[1].score > picks[3].score
  /\ picks[3].score > picks[2].score

\* ================================================== the delay tracker claims
\* this step is a run of generate_today_digest with delay tracking enabled
TrackerStep == runs' = runs + 1 /\ wcall'.delay_cfg.enabled

\* how many entries of a stored list carry the link
CountLink(entries, l) ==
  Cardinality({i \in 1..Len(entries) : entries[i].link = l})

\* C7: a link that was given a watching entry once is never given one again
C7_TrackedOnceEver ==
  \A i \in 1..Len(added_links) : added_links[i] \notin tracked

\* C8: a run adds no entry for a pick whose link the loaded state already
\* holds, and a state with pairwise distinct links is written back as one
C8_NoDuplicateLink ==
  [][TrackerStep =>
       \A loaded \in {watching \o done}, written \in {watching' \o done'} :
         \A seen \in {LinksOf(loaded)}, kept \in {LinksOf(written)} :
           /\ \A i \in 1..Len(picks') :
                (picks'[i].item # None /\ picks'[i].item.link \in seen)
                  => CountLink(written, picks'[i].item.link)
                       <= CountLink(loaded, picks'[i].item.link)
           /\ Cardinality(seen) = Len(loaded)
                => Cardinality(kept) = Len(written)]_vars

\* the last run picked, above the watch threshold, an item whose link the
\* store already held, and the store still holds it once
C8_Witness ==
  /\ runs >= 2
  /\ wcall.delay_cfg.enabled
  /\ \E i \in 1..Len(picks) :
       /\ picks[i].item # None
       /\ picks[i].score >= wcall.delay_cfg.min_score_to_watch
       /\ picks[i].item.link \in tracked
       /\ CountLink(watching \o done, picks[i].item.link) = 1

\* the entries of done' the step appended
Appended ==
  SubSeq(done', Len(done') - status'.matured_checked + 1, Len(done'))

\* the entry of link l was moved: gone from watching', appended to done' with
\* the given fermented flag
MovedWith(l, flag) ==
  /\ l \notin LinksOf(watching')
  /\ \E i \in 1..Len(Appended) :
       Appended[i].link = l /\ Appended[i].fermented = flag

\* a term of the list, taken as it is, is non-empty and occurs in the text
LiteralMatch(terms, text) ==
  \E i \in 1..Len(terms) : terms[i] # <<>> /\ Contains(terms[i], text)

\* a term of the list, stripped and lowercased, is non-empty and occurs
NormalisedMatch(terms, text) ==
  \E i \in 1..Len(terms) :
    Lower(Strip(terms[i])) # <<>> /\ Contains(Lower(Strip(terms[i])), text)

TermMatch(literal, terms, text) ==
  IF literal THEN LiteralMatch(terms, text) ELSE NormalisedMatch(terms, text)

\* the watching entries the step created, as it appended them
Created ==
  [i \in 1..Len(added_links') |->
     [link |-> added_links'[i],
      title |-> (CHOOSE p \in {picks'[j] : j \in {n \in 1..Len(picks') :
                                                    picks'[n].item # None}} :
                   p.item.link = added_links'[i]).item.title,
      due_at |-> IsoFormat(wcall'.now + wcall'.delay_cfg.delay_hours)]]

\* the entries watching held when the step began
Before ==
  [i \in 1..Len(watching) |->
     [link |-> watching[i].link, title |-> watching[i].title,
      due_at |-> watching[i].due_at]]

\* the maturation rule of a tracker step, for a given way to match terms
MaturationRule(literal) ==
  \A all \in {Before \o Created} :
    \A kept \in {SelectSeq(watching,
                            LAMBDA w : FromIso(w.due_at) > wcall'.now)} :
      /\ \A i \in 1..Len(all) :
           IF FromIso(all[i].due_at) <= wcall'.now
           THEN MovedWith(all[i].link,
                          TermMatch(literal, wcall'.threads_terms_all,
                                    Lower(all[i].title \o <<" ">> \o all[i].link)))
           ELSE all[i].link \in LinksOf(watching')
      /\ Len(watching') >= Len(kept)
      /\ SubSeq(watching', 1, Len(kept)) = kept

C10_HistoryCap ==
  [][TrackerStep =>
       LET total == Len(done) + status'.matured_checked
           drop == IF total > 500 THEN total - 500 ELSE 0
       IN  /\ Len(done') <= 500
           /\ Len(done') = total - drop
           /\ drop <= Len(done)
           /\ SubSeq(done', 1, Len(done) - drop)
                = SubSeq(done, drop + 1, Len(done))
           /\ \A i \in 1..Len(Appended) :
                Appended[i].checked_at = IsoFormat(wcall'.now)]_vars

\* a full history lost its oldest entry to a run that matured something
C10_Witness ==
  /\ runs >= 1
  /\ wcall.delay_cfg.enabled
  /\ status.matured_checked >= 1
  /\ Len(done) = 500
  /\ done[1].link # Item1.link
  /\ done[500].checked_at = IsoFormat(wcall.now)

\* ============================================ more claims on pick_by_topic
\* the indices of the strict entries of the enabled topic n among the first k
StrictP1(n, k) ==
  {i \in 1..k : picks[i].topic_id = En[n].id /\ Strict(picks[i])}

FallbacksOf(n) ==
  {i \in 1..Len(picks) : picks[i].topic_id = En[n].id /\ picks[i].is_fallback}

PlaceholdersOf(n) ==
  {i \in 1..Len(picks) : picks[i].topic_id = En[n].id /\ picks[i].item = None}

EntriesOf(n) == {i \in 1..Len(picks) : picks[i].topic_id = En[n].id}

\* the ranked list of the enabled topic n for the call
RankedOf(n) == Ranked(call.items, En[n], call.topic_radar_terms)

\* C14: an enabled topic with fewer than min_per_topic strict Pass-1 entries
\* and no fallback entry has exactly one placeholder entry, and no topic has a
\* placeholder otherwise; accounting never has a fallback entry, and with no
\* candidate and min_per_topic = 1 its only entry is a placeholder
C14_PlaceholderWhenNoFallback ==
  Called =>
    \A k \in {P1Len}, n \in 1..Len(En) :
      \A strict \in {Cardinality(StrictP1(n, k))}, fb \in {FallbacksOf(n)},
         ph \in {PlaceholdersOf(n)} :
        /\ (strict < call.min_per_topic /\ fb = {}) => Cardinality(ph) = 1
        /\ Cardinality(ph) <= 1
        /\ ph # {} => (strict < call.min_per_topic /\ fb = {})
        /\ En[n].id = "accounting" =>
             /\ fb = {}
             /\ (RankedOf(n) = <<>> /\ call.min_per_topic = 1)
                  => (Cardinality(EntriesOf(n)) = 1 /\ ph = EntriesOf(n))

\* accounting, without a candidate and with min_per_topic = 1, has a
\* placeholder as its only entry although the pool holds an unpicked item of
\* an official AI site
C14_Witness ==
  /\ Called
  /\ call.min_per_topic = 1
  /\ \E n \in 1..Len(En) :
       /\ En[n].id = "accounting"
       /\ RankedOf(n) = <<>>
       /\ Cardinality(EntriesOf(n)) = 1
       /\ PlaceholdersOf(n) = EntriesOf(n)
  /\ \E i \in 1..Len(call.items) :
       /\ _is_ai_official(call.items[i].link)
       /\ call.items[i].link \notin LinksBefore(Len(picks))

\* C15: every entry belongs to a topic of the call whose enabled flag is
\* true, and a call without enabled topic returns the empty list
C15_NoDisabledTopic ==
  Called =>
    /\ \A i \in 1..Len(picks) :
         \E j \in 1..Len(call.topics) :
           call.topics[j].id = picks[i].topic_id /\ call.topics[j].enabled
    /\ \A j \in 1..Len(call.topics) :
         ~call.topics[j].enabled
           => \A i \in 1..Len(picks) : picks[i].topic_id # call.topics[j].id
    /\ (\A j \in 1..Len(call.topics) : ~call.topics[j].enabled)
         => picks = <<>>

\* no topic of the call is enabled, the disabled one has a candidate in the
\* pool, max_items is positive, and the call returned the empty list
C15_Witness ==
  /\ Called
  /\ call.topics # <<>>
  /\ \A j \in 1..Len(call.topics) : ~call.topics[j].enabled
  /\ \E j \in 1..Len(call.topics) :
       Ranked(call.items, call.topics[j], call.topic_radar_terms) # <<>>
  /\ call.max_items > 0
  /\ call.min_per_topic > 0
  /\ picks = <<>>

\* the links of the Pass-1 entries of the enabled topics before the n-th
UsedBeforeTopic(n) ==
  {picks[i].item.link :
     i \in {m \in 1..P1Len : NonNull(picks[m]) /\ TopicIdx(picks[m].topic_id) < n}}

\* the strict Pass-1 entries of the enabled topic n, in the order of the list
StrictBlock(n) ==
  SelectSeq(SubSeq(picks, 1, P1Len),
            LAMBDA e : e.topic_id = En[n].id /\ Strict(e))

\* the candidates of the enabled topic n whose links the earlier topics left
AvailableTo(n) ==
  SelectSeq(RankedOf(n), LAMBDA c : c.item.link \notin UsedBeforeTopic(n))

\* the Pass-1 entries of the call are what the call returns for any max_items
SameForEveryMaxItems ==
  \A mx \in 0..MaxMaxItems :
    \E other \in {pick_by_topic(call.items, call.topics, mx,
                                call.min_per_topic, call.topic_radar_terms)} :
      /\ Len(other) >= P1Len
      /\ SubSeq(other, 1, P1Len) = SubSeq(picks, 1, P1Len)

\* the strict block of every enabled topic is the first k available
\* candidates, for the k the floor gives
FloorBlocks(floor) ==
  \A n \in 1..Len(En) :
    \E avail \in {AvailableTo(n)} :
      StrictBlock(n) = SubSeq(avail, 1, Min(Max(floor, call.min_per_topic),
                                            Len(avail)))

\* C19 as stated: the strict block of a topic is its first
\* min(min_per_topic, number available) available candidates, for every
\* max_items
C19_FirstKOfMinPerTopic ==
  Called => (FloorBlocks(0) /\ SameForEveryMaxItems)

\* what the code does instead: the strict block of a topic is its first
\* min(max(1, min_per_topic), number available) available candidates, in
\* ranked order, and is the same for every max_items
C19_FirstKOfAtLeastOne == Called => (FloorBlocks(1) /\ SameForEveryMaxItems)

\* a call with min_per_topic = 0 and max_items = 0 returned a strict entry
C19_FloorZeroTakesOne ==
  /\ Called
  /\ call.min_per_topic = 0
  /\ call.max_items = 0
  /\ \E n \in 1..Len(En) : Len(StrictBlock(n)) = 1

\* the candidates of every ranked list of the call
AllCandidates ==
  UNION {{r[k] : k \in 1..Len(r)} : r \in {RankedOf(n) : n \in 1..Len(En)}}

\* C20: a Pass-2 entry scores at least as high as every candidate whose link
\* was unused when it was added, is added only below max_items, and the call
\* returns with max_items reached or every candidate's link picked
C20_GreedyMaximalFill ==
  Called =>
    \A cands \in {AllCandidates}, p1len \in {P1Len} :
      /\ \A i \in (p1len + 1)..Len(picks) :
           /\ Strict(picks[i])
           /\ _real_count(SubSeq(picks, 1, i - 1)) < call.max_items
           /\ \A used \in {LinksBefore(i - 1)} :
                \A c \in cands :
                  c.item.link \notin used => picks[i].score >= c.score
      /\ \/ _real_count(picks) >= call.max_items
         \/ \A used \in {LinksBefore(Len(picks))} :
              \A c \in cands : c.item.link \in used

\* Pass 2 added an entry and stopped at max_items with a candidate left over
C20_Witness ==
  /\ Called
  /\ Len(picks) > P1Len
  /\ _real_count(picks) = call.max_items
  /\ \E c \in AllCandidates : c.item.link \notin LinksBefore(Len(picks))

\* ======================================================= the guard claims
\* the terms of a guard list that count: all of them, or the non-empty ones
CountedTerms(literal, terms) ==
  IF literal THEN terms ELSE SelectSeq(terms, LAMBDA s : s # <<>>)

\* a counted term of the list, lowercased, is a substring of the blob
TermIn(literal, terms, blob) ==
  \E i \in 1..Len(CountedTerms(literal, terms)) :
    Contains(Lower(CountedTerms(literal, terms)[i]), blob)

\* guard_pass returned true iff no guard is configured, or the include list
\* has no counted term or one of them occurs, and no counted forbidden term
\* occurs; and no strict entry of the guarded topic holds a forbidden term
GuardRule(literal) ==
  \A blob \in {_text_blob(call.item)} :
    /\ ret # None =>
         (ret.value <=>
            \/ ~call.guard.configured
            \/ /\ \/ CountedTerms(literal, call.guard.must_include_any) = <<>>
                  \/ TermIn(literal, call.guard.must_include_any, blob)
               /\ ~TermIn(literal, call.guard.must_not_include_any, blob))
    /\ (runs = 1 /\ call.guard.configured
          /\ TermIn(literal, call.guard.must_not_include_any, blob))
         => \A i \in 1..Len(picks) : ~Strict(picks[i])

Norm(literal, s) == IF literal THEN Lower(s) ELSE Lower(Strip(s))

\* the low-weight keywords, stripped and lowercased
NormLow(low) ==
  {Lower(Strip(low[i])) : i \in 1..Len(low)} \ {<<>>}

\* the one weight of a base keyword: title tier, else blob tier, else nothing
KeywordWeight(literal, k, item, low) ==
  LET kl == Norm(literal, k)
      is_low == Lower(Strip(k)) \in NormLow(low)
  IN  IF kl = <<>> THEN 0
      ELSE IF Contains(kl, Lower(item.title))
           THEN (IF is_low THEN 5 ELSE 20)
      ELSE IF Contains(kl, _text_blob(item))
           THEN (IF is_low THEN 2 ELSE 10)
      ELSE 0

RadarWeight(literal, rt, item) ==
  LET rl == Norm(literal, rt)
  IN  IF rl = <<>> THEN 0
      ELSE IF Contains(rl, Lower(item.title)) THEN 8
      ELSE IF Contains(rl, _text_blob(item)) THEN 4
      ELSE 0

RECURSIVE SumSeq(_)
SumSeq(ws) == IF ws = <<>> THEN 0 ELSE Head(ws) + SumSeq(Tail(ws))

\* the score, in tenths, is the sum of one weight per keyword and radar term
ScoreRule(literal) ==
  ret # None =>
    ret.score =
      SumSeq([i \in 1..Len(call.base_keywords) |->
                KeywordWeight(literal, call.base_keywords[i], call.item,
                              call.low_weight_keywords)])
      + SumSeq([i \in 1..Len(call.radar_terms) |->
                  RadarWeight(literal, call.radar_terms[i], call.item)])

Accepted(p) == proc[p].pc = "put" /\ proc'[p].pc = "returned"

\* C11: a write is accepted only with the sha of the read that produced the
\* state it modifies, so an accepted write drops no link the store holds
C11_NoLostUpdate ==
  [][\A p \in Procs :
       Accepted(p) =>
         /\ proc[p].read_sha = [sha |-> sha]
         /\ (LinksOf(watching) \cup LinksOf(done))
              \subseteq (LinksOf(watching') \cup LinksOf(done'))]_vars

\* C12: no run of generate_today_digest ends by raising: whatever the store
\* does, the run returns, and reports tracking as disabled after a failure
C12_RunCompletes ==
  \A p \in Procs : proc # None => proc[p].pc # "raised"

\* ==================================================== the delivery claims
\* C13: when the delivery loop of main has ended, a push was attempted
\* exactly once for every subscriber of the loaded list, in order, whatever
\* the earlier pushes did
C13_EveryoneAttempted ==
  (deliv # None /\ deliv.pc \in {"finished", "crashed"}
     /\ deliv.users # <<>>)
    => deliv.attempted = deliv.users

\* ==================================================== the liveness claims
\* the links an entry of watching can have
WatchLinks == {it.link : it \in Catalogue}

\* an entry of watching with link l falls due within the hours of the clock
DueWithinClock(l) ==
  \E i \in 1..Len(watching) :
    /\ watching[i].link = l
    /\ IsIso(watching[i].due_at)
    /\ FromIso(watching[i].due_at) <= MaxNow

\* C18: a run with delay tracking enabled leaves in watching no entry whose
\* due_at is at or before the run's now, and has every such entry in done;
\* so, with the clock advancing and such runs recurring, every entry of
\* watching that falls due is eventually in done
C18_EventuallyDone ==
  /\ [][(now' = now /\ wcall'.delay_cfg.enabled) =>
          \A i \in 1..Len(watching) :
            (IsIso(watching[i].due_at)
               /\ FromIso(watching[i].due_at) <= wcall'.now)
              => /\ watching[i].link \in LinksOf(done')
                 /\ watching[i].link \notin LinksOf(watching')]_vars
  /\ \A l \in WatchLinks : DueWithinClock(l) ~> (l \in LinksOf(done))

\* the entry a run added at hour 0, due at hour 1, was moved to done by a run
\* at hour 1
C18_Witness ==
  /\ runs >= 2
  /\ wcall.delay_cfg.enabled
  /\ wcall.now = 1
  /\ \E i \in 1..Len(done) :
       /\ done[i].link = Item1.link
       /\ done[i].saved_at = IsoFormat(0)
       /\ done[i].due_at = IsoFormat(1)
       /\ done[i].checked_at = IsoFormat(1)


\* =============================================== claims on the fallback step
\* the item holds one of the terms, as the fallback scan looks for them
BlobHolds(it, terms) ==
  \E blob \in {_text_blob(it)} :
    \E k \in 1..Len(terms) : Contains(Lower(terms[k]), blob)

RealP1(n) ==
  {i \in 1..P1Len : picks[i].topic_id = En[n].id /\ NonNull(picks[i])}

\* C27 as stated: a topic has a placeholder only when its Pass-1 block holds
\* no strict and no fallback entry, for every min_per_topic
C27_PlaceholderOnlyWhenEmpty ==
  Called =>
    \A n \in 1..Len(En) : PlaceholdersOf(n) # {} => RealP1(n) = {}

\* what the code does instead: a topic has a placeholder exactly when its
\* Pass-1 block holds fewer strict entries than min_per_topic and no fallback
\* entry, so with min_per_topic <= 1 never next to a real entry
C27_PlaceholderWhenBelowFloor ==
  Called =>
    \A k \in {P1Len}, n \in 1..Len(En) :
      /\ PlaceholdersOf(n) # {}
           <=> (Cardinality(StrictP1(n, k)) < call.min_per_topic
                  /\ FallbacksOf(n) = {})
      /\ (call.min_per_topic <= 1 /\ PlaceholdersOf(n) # {}) => RealP1(n) = {}

\* a call with min_per_topic = 2 returned, for one topic, a strict entry
\* followed by the placeholder
C27_RealAndPlaceholder ==
  /\ Called
  /\ call.min_per_topic = 2
  /\ \E n \in 1..Len(En) :
       /\ PlaceholdersOf(n) # {}
       /\ \E i \in RealP1(n) : Strict(picks[i])

\* ======================================== claims on the candidate collection
\* the pick of the step's PickSet that carries the link
PickWith(l) ==
  CHOOSE p \in {picks'[j] : j \in {n \in 1..Len(picks') : picks'[n].item # None}} :
    p.item.link = l

\* the entry the step wrote for the link
WrittenFor(l) ==
  CHOOSE e \in {(watching' \o done')[j] : j \in 1..Len(watching' \o done')} :
    e.link = l /\ e.saved_at = IsoFormat(wcall'.now)

\* every entry the step created has the score of its pick, at least
\* min_score_to_watch, and is due delay_hours after the run
CreatedShape ==
  \A i \in 1..Len(added_links') :
    \E p \in {PickWith(added_links'[i])}, e \in {WrittenFor(added_links'[i])} :
      /\ p.item # None
      /\ p.score >= wcall'.delay_cfg.min_score_to_watch
      /\ e.link = p.item.link
      /\ e.score = p.score
      /\ e.due_at = IsoFormat(wcall'.now + wcall'.delay_cfg.delay_hours)

\* C23 as stated: a run creates watching entries only for picks that are
\* neither placeholders nor fallback picks, whatever min_score_to_watch is,
\* each with score >= min_score_to_watch and due_at = now + delay_hours
C23_OnlyStrictWatched ==
  [][TrackerStep =>
       /\ CreatedShape
       /\ \A i \in 1..Len(added_links') :
            ~PickWith(added_links'[i]).is_fallback]_vars

\* what the code does instead: a created entry is for a non-null pick with
\* score >= min_score_to_watch, fallback or not, due at now + delay_hours
C23_NonNullWatched == [][TrackerStep => CreatedShape]_vars

\* the last run, with min_score_to_watch = 0.5, gave a watching entry to a
\* fallback pick
C23_FallbackWatched ==
  /\ runs >= 1
  /\ wcall.delay_cfg.enabled
  /\ wcall.delay_cfg.min_score_to_watch = 5
  /\ \E i \in 1..Len(picks) :
       /\ picks[i].is_fallback
       /\ \E j \in 1..Len(added_links) : added_links[j] = picks[i].item.link

\* the picks of the step that pass the tests of the candidate loop before the
\* cap, for the topic: real, at or above the threshold, link not in the store
Qualifying(tid) ==
  {j \in 1..Len(picks') :
     /\ picks'[j].item # None
     /\ picks'[j].topic_id = tid
     /\ picks'[j].score >= wcall'.delay_cfg.min_score_to_watch
     /\ picks'[j].item.link \notin LinksOf(watching \o done)}

\* the entries the step created for the topic
CreatedFor(tid) ==
  {i \in 1..Len(added_links') : WrittenFor(added_links'[i]).topic_id = tid}

\* C24: a run creates at most max_candidates_per_topic entries for a topic,
\* and as many as that or as it has qualifying picks of the topic, whatever
\* the store already holds for the topic from earlier runs
C24_CapPerRun ==
  [][TrackerStep =>
       \A tid \in {picks'[j].topic_id : j \in 1..Len(picks')} :
         \E n \in {Cardinality(CreatedFor(tid))} :
           /\ n <= wcall'.delay_cfg.max_candidates_per_topic
           /\ n = Min(wcall'.delay_cfg.max_candidates_per_topic,
                      Cardinality(Qualifying(tid)))]_vars

\* the store held max_candidates_per_topic entries of a topic, created by the
\* first run, and the second run created max_candidates_per_topic more
C24_Witness ==
  /\ runs = 2
  /\ wcall.delay_cfg.enabled
  /\ \E tid \in {picks[j].topic_id : j \in 1..Len(picks)} :
       \E stored \in {{e \in {(watching \o done)[j] :
                                j \in 1..Len(watching \o done)} :
                         e.topic_id = tid}} :
         /\ Cardinality({e \in stored :
                           e.link \in {added_links[i] : i \in 1..Len(added_links)}})
              = wcall.delay_cfg.max_candidates_per_topic
         /\ Cardinality({e \in stored :
                           e.link \in tracked /\ e.saved_at = IsoFormat(0)})
              = wcall.delay_cfg.max_candidates_per_topic

\* ============================================ claims on the returned status
RECURSIVE SumOver(_, _)
SumOver(f, S) ==
  IF S = {} THEN 0
  ELSE LET x == CHOOSE y \in S : TRUE IN f[x] + SumOver(f, S \ {x})

\* C28 as stated: added_today is the number of entries the run appended to
\* watching, and watching_now the length of the watching list written back
C28_StatusCounts ==
  [][TrackerStep =>
       /\ status'.added_today = Len(added_links')
       /\ status'.watching_now = Len(watching')]_vars

\* what the code does instead: added_today counts the picks that reached the
\* cap test, appended or not; watching_now is the length written back
C28_CountsBeforeCap ==
  [][TrackerStep =>
       \E tids \in {{picks'[j].topic_id : j \in 1..Len(picks')}} :
         /\ status'.added_today
              = SumOver([tid \in tids |-> Cardinality(Qualifying(tid))], tids)
         /\ status'.added_today >= Len(added_links')
         /\ status'.watching_now = Len(watching')]_vars

\* the last run reported more entries added than it appended
C28_ReportedMoreThanAdded ==
  /\ runs >= 1
  /\ wcall.delay_cfg.enabled
  /\ status.added_today > Len(added_links)
  /\ Len(added_links) >= 1

\* ================================================ claims on the ranking loop
\* the score score_item gives the item for the topic of the call
ScoreFor(it) ==
  score_item(it, call.topic.keywords, call.topic_radar_terms[call.topic.id],
             call.topic.low_weight_keywords).score

\* the positions of the pool whose item passes the guard of the topic and
\* scores at least its min_score
Eligible ==
  {i \in 1..Len(call.items) :
     /\ guard_pass(call.items[i], call.topic.guard)
     /\ ScoreFor(call.items[i]) >= call.topic.min_score}

\* the position of a ranked entry's item in the pool
PoolPos(c) == CHOOSE i \in 1..Len(call.items) : call.items[i] = c.item

\* C22: the ranked list of an enabled topic holds exactly the pool items that
\* pass the topic's guard and score at least its min_score, each once with
\* its score, by non-increasing score, equal scores in pool order
C22_RankedList ==
  ret # None =>
    \A r \in {ret.ranked}, el \in {Eligible} :
      /\ Len(r) = Cardinality(el)
      /\ \A i \in el : \E k \in 1..Len(r) : r[k].item = call.items[i]
      /\ \A k \in 1..Len(r) :
           /\ \E i \in el : r[k].item = call.items[i]
           /\ r[k].score = ScoreFor(r[k].item)
           /\ r[k].topic_id = call.topic.id
           /\ ~r[k].is_fallback
      /\ \A k, l \in 1..Len(r) :
           k < l =>
             /\ r[k].score >= r[l].score
             /\ r[k].score = r[l].score => PoolPos(r[k]) < PoolPos(r[l])

\* a ranked list of three: the last item of the pool first, with the highest
\* score, then two items of equal score in pool order, the topic's guard and
\* min_score having kept out no item
C22_Witness ==
  /\ ret # None
  /\ Len(call.items) = 3
  /\ Len(ret.ranked) = 3
  /\ ret.ranked[1].item = call.items[3]
  /\ ret.ranked[1].score > ret.ranked[2].score
  /\ ret.ranked[2].score = ret.ranked[3].score
  /\ ret.ranked[2].item = call.items[1]


\* ====================================== claims on the guard and the fallback
\* C30 as stated: every non-null entry, fallback entries included, has an
\* item that passes the guard of its topic
C30_EveryEntryPassesGuard ==
  runs = 1 =>
    \A i \in 1..Len(picks) :
      NonNull(picks[i]) => guard_pass(picks[i].item, call.guard)

\* what the code does instead: the strict entries pass the guard of their
\* topic; a fallback entry is chosen without consulting it
C30_StrictPassGuard ==
  runs = 1 =>
    \A i \in 1..Len(picks) :
      Strict(picks[i]) => guard_pass(picks[i].item, call.guard)

\* the topic's guard forbids "AI"; the item "AI chip" of an official site was
\* kept out of the ranked list by the guard and came back as the fallback
C30_FallbackFailsGuard ==
  /\ runs = 1
  /\ call.guard.configured
  /\ call.guard.must_include_any = <<>>
  /\ call.guard.must_not_include_any = << <<"A", "I">> >>
  /\ call.item = Item1
  /\ Len(picks) = 1
  /\ picks[1].is_fallback
  /\ picks[1].item = Item1
  /\ ~guard_pass(picks[1].item, call.guard)

\* ============================================== claims on the failure counts
\* this step is record_push_failure with failure tracking enabled
RecordStep ==
  deliv # None /\ deliv.pc = "recording" /\ deliv.ft.enabled

Members(q) == {q[k] : k \in 1..Len(q)}

\* C25: record_push_failure adds one to the stored count of the subscriber
\* whose push failed, on top of what earlier runs stored, and leaves the other
\* counts alone; with auto_remove_user and a count at or above the threshold
\* this subscriber and no other leaves the stored users list, and otherwise
\* the users list is not written; when the store refuses a request the call
\* raises instead
C25_FailureCounts ==
  [][RecordStep =>
       \E uid \in {deliv.users[deliv.i]} :
         \E due \in {deliv.ft.auto_remove_user
                       /\ deliv.failures[uid] + 1 >= deliv.ft.auto_remove_threshold
                       /\ uid \in Members(deliv.stored_users)} :
           /\ \A u \in Uids \ {uid} : deliv'.failures[u] = deliv.failures[u]
           /\ deliv'.pc = "loop" => deliv'.failures[uid] = deliv.failures[uid] + 1
           /\ deliv'.pc # "loop" =>
                /\ deliv'.pc = "crashed"
                /\ deliv'.failures[uid] \in {deliv.failures[uid],
                                              deliv.failures[uid] + 1}
           /\ (due /\ deliv'.pc = "loop") =>
                /\ Members(deliv'.stored_users) = Members(deliv.stored_users) \ {uid}
                /\ deliv'.users_writes = deliv.users_writes + 1
           /\ (~due \/ deliv'.pc # "loop") =>
                /\ deliv'.stored_users = deliv.stored_users
                /\ deliv'.users_writes = deliv.users_writes]_vars

\* a run with auto_remove_threshold = 2 in which one subscriber, with a
\* count of 1 from an earlier run, was removed at count 2, and another, with no
\* earlier failure, reached count 1 and stayed
C25_Witness ==
  /\ deliv # None
  /\ deliv.pc = "finished"
  /\ deliv.ft.auto_remove_user
  /\ deliv.ft.auto_remove_threshold = 2
  /\ deliv.users_writes = 1
  /\ \E u, v \in Members(deliv.users) :
       /\ u # v
       /\ deliv.failures[u] = 2
       /\ u \notin Members(deliv.stored_users)
       /\ deliv.failures[v] = 1
       /\ v \in Members(deliv.stored_users)
       /\ deliv.fail = 2

Saved(p) == proc[p].pc = "put" /\ proc'[p].pc = "idle"

\* C29 as stated: a write of the users list is accepted only with the
\* version read together with the list it modifies, so the removal by main
\* loses no follower the webhook stored and the webhook's save brings back no
\* subscriber main removed
C29_WritesOnVersionRead ==
  [][/\ Saved("main") =>
          /\ proc["main"].read_sha = [sha |-> sha]
          /\ Members(deliv'.stored_users)
               = Members(deliv.stored_users) \ {proc["main"].uid}
     /\ Saved("webhook") =>
          /\ proc["webhook"].read_sha = [sha |-> sha]
          /\ Members(deliv'.stored_users)
               = Members(deliv.stored_users) \cup {proc["webhook"].uid}]_vars

\* what the code does instead: only the webhook's save carries the version
\* read with the list, and brings back no subscriber removed meanwhile
C29_WebhookOnVersionRead ==
  [][Saved("webhook") =>
       /\ proc["webhook"].read_sha = [sha |-> sha]
       /\ Members(deliv'.stored_users)
            = Members(deliv.stored_users) \cup {proc["webhook"].uid}]_vars

\* the webhook stored a follower after main had loaded the list, and main's
\* save of the list without the removed subscriber dropped the follower
C29_FollowerLost ==
  /\ proc # None
  /\ sha = 2
  /\ proc["main"].pc = "idle"
  /\ proc["main"].read_sha = [sha |-> 0]
  /\ proc["main"].put_sha = [sha |-> 1]
  /\ proc["webhook"].pc = "idle"
  /\ proc["webhook"].read_sha = [sha |-> 0]
  /\ proc["webhook"].uid # proc["main"].uid
  /\ proc["webhook"].uid \notin Members(deliv.stored_users)
====
